---- MODULE Spec2Model ----
(***************************************************************************)
(* ShopLens chat orchestration: the function-calling loop of               *)
(* ChatService.process_message, the two LLM provider adapters, the tool    *)
(* dispatcher and the circuit breaker that guards the model backend.       *)
(***************************************************************************)
EXTENDS Integers, Sequences, FiniteSets, TLC

(***************************************************************************)
(* Bounds.  The first three scale numbers of the program: the code sets    *)
(* MAX_FUNCTION_CALL_ITERATIONS = 25 (chat_service.py:31) and builds the   *)
(* singleton breaker with failure_threshold = 5, recovery_timeout = 30.0   *)
(* (circuit_breaker.py:104); the code only compares against them.          *)
(***************************************************************************)
MAX_FUNCTION_CALL_ITERATIONS == 3
failure_threshold == 2
recovery_timeout == 2
\* clock ticks after process start
MaxTicks == 4
\* process_message invocations of one run slot
MaxRequests == 4
\* cap of the breaker's failure counter in the breaker-only specification
MaxFailureCount == 4
\* handler invocations followed when the dispatcher is run on its own
MaxHandlerCalls == 4
\* messages of history a run is given (20 in chat_service.py, line 463: the
\* query asks for one more)
recent_limit == 2
\* stored messages of a conversation when its history is built on its own
MaxStored == 4

(***************************************************************************)
(* Circuit breaker (core/circuit_breaker.py)                               *)
(***************************************************************************)
CLOSED == "closed"
OPEN == "open"
HALF_OPEN == "half_open"
CircuitState == {CLOSED, OPEN, HALF_OPEN}

\* CircuitBreaker.__init__: the fields of a new breaker
CircuitBreaker ==
  [state |-> CLOSED, failure_count |-> 0, last_failure_time |-> 0]

\* the recovery test with > for >=
state_late(b, t) ==
  IF b.state = OPEN /\ t - b.last_failure_time > recovery_timeout
    THEN [b EXCEPT !.state = HALF_OPEN]
    ELSE b

\* the move to HALF_OPEN also clears the failure count
state_clears_count(b, t) ==
  IF b.state = OPEN /\ t - b.last_failure_time >= recovery_timeout
    THEN [b EXCEPT !.state = HALF_OPEN, !.failure_count = 0]
    ELSE b

\* the `state` property: the lazy OPEN -> HALF_OPEN move, then the breaker
\* it leaves behind; t is time.time()
state(b, t) ==
  IF b.state = OPEN /\ t - b.last_failure_time >= recovery_timeout
    THEN [b EXCEPT !.state = HALF_OPEN]
    ELSE b

\* the final `return False` lost: an open breaker lets the request through
allow_request_always(current_state) ==
  IF current_state = CLOSED THEN TRUE
  ELSE IF current_state = HALF_OPEN THEN TRUE
  ELSE TRUE

\* allow_request's decision on the state it has just read
allow_request(current_state) ==
  IF current_state = CLOSED THEN TRUE
  ELSE IF current_state = HALF_OPEN THEN TRUE
  ELSE FALSE

\* the count is left as it was
record_success_keep_count(b) ==
  [b EXCEPT !.state = CLOSED]

\* the state is left as it was
record_success_keep_state(b) ==
  [b EXCEPT !.failure_count = 0]

\* the success is not recorded at all
record_success_dropped(b) == b

record_success(b) ==
  [b EXCEPT !.state = CLOSED, !.failure_count = 0]

\* the threshold test with > for >=
record_failure_late(b, t) ==
  LET n == b.failure_count + 1
  IN [state |-> IF b.state = HALF_OPEN THEN OPEN
                ELSE IF n > failure_threshold THEN OPEN
                ELSE b.state,
      failure_count |-> n,
      last_failure_time |-> t]

\* _last_failure_time not taken anew while half_open
record_failure_stale_time(b, t) ==
  LET n == b.failure_count + 1
  IN [state |-> IF b.state = HALF_OPEN THEN OPEN
                ELSE IF n >= failure_threshold THEN OPEN
                ELSE b.state,
      failure_count |-> n,
      last_failure_time |-> IF b.state = HALF_OPEN THEN b.last_failure_time ELSE t]

\* the increment of _failure_count lost
record_failure_no_count(b, t) ==
  [state |-> IF b.state = HALF_OPEN THEN OPEN
             ELSE IF b.failure_count >= failure_threshold THEN OPEN
             ELSE b.state,
   failure_count |-> b.failure_count,
   last_failure_time |-> t]

record_failure(b, t) ==
  LET n == b.failure_count + 1
  IN [state |-> IF b.state = HALF_OPEN THEN OPEN
                ELSE IF n >= failure_threshold THEN OPEN
                ELSE b.state,
      failure_count |-> n,
      last_failure_time |-> t]

\* the count is left as it was
reset_keep_count(b) ==
  [state |-> CLOSED, failure_count |-> b.failure_count, last_failure_time |-> 0]

reset(b) ==
  [state |-> CLOSED, failure_count |-> 0, last_failure_time |-> 0]

(***************************************************************************)
(* Conversation items and backend responses (services/llm_service.py).     *)
(* A part is one element of a Gemini Content's parts, or the body of one   *)
(* OpenAI message; a turn is one item of the contents list.                *)
(***************************************************************************)
NoSig == "none"
NoPart == [kind |-> "none", text |-> "", name |-> "", args |-> "",
           thought_signature |-> NoSig, id |-> "", result |-> <<>>]
TextPart(t) == [NoPart EXCEPT !.kind = "text", !.text = t]
FunctionCallPart(n, a, sig, i) ==
  [NoPart EXCEPT !.kind = "function_call", !.name = n, !.args = a,
                 !.thought_signature = sig, !.id = i]
FunctionResponsePart(n, res, sig, i) ==
  [NoPart EXCEPT !.kind = "function_response", !.name = n, !.result = res,
                 !.thought_signature = sig, !.id = i]
Turn(role, parts) == [role |-> role, parts |-> parts]

\* the tools of the registry the model uses, and a name no one registered
KnownTool == "check_product_cache"
OtherTool == "get_reviews_summary"
BogusTool == "bogus_tool"
FUNCTION_REGISTRY == {KnownTool, OtherTool}

ArgsDict == "{product_name: X}"
ArgsJson == "{\"product_name\": \"X\"}"
ArgsJsonList == "[1]"
ArgsJsonBad == "{\"product_name\": "

\* json.loads on the argument strings a backend sends
JsonLoads(s) ==
  IF s = ArgsJson THEN [ok |-> TRUE, is_dict |-> TRUE, value |-> ArgsDict]
  ELSE IF s = ArgsJsonList THEN [ok |-> TRUE, is_dict |-> FALSE, value |-> "[1]"]
  ELSE [ok |-> FALSE, is_dict |-> FALSE, value |-> ""]

\* json.dumps of a tool result (a dict): a string, never the dict itself
JsonDumps(result) == <<"json", result.status, result.error>>

\* a backend response: Gemini fills parts (candidates[0].content.parts; no
\* candidate, no content and no parts all read as <<>>), OpenAI fills
\* content and tool_calls (choices[0].message)
GeminiResponse(parts) ==
  [prov |-> "gemini", parts |-> parts, content |-> "", tool_calls |-> <<>>]
OpenAIResponse(content, tool_calls) ==
  [prov |-> "openai", parts |-> <<>>, content |-> content, tool_calls |-> tool_calls]
NoResponse == [prov |-> "none", parts |-> <<>>, content |-> "", tool_calls |-> <<>>]
ToolCall(i, n, a) == FunctionCallPart(n, a, NoSig, i)

AnswerText == "Here's what I found."

\* the response shapes the backends are let to produce: text only, nothing,
\* a function call first, a function call with a thought signature and a
\* trailing text, a text before the function call; for OpenAI also two tool
\* calls beside a content, and arguments that are no JSON or no JSON object
GeminiResponses ==
  { GeminiResponse(<<TextPart(AnswerText)>>),
    GeminiResponse(<<>>),
    GeminiResponse(<<FunctionCallPart(KnownTool, ArgsDict, NoSig, "")>>),
    GeminiResponse(<<FunctionCallPart(BogusTool, "", "sigA", ""),
                     TextPart(AnswerText)>>),
    GeminiResponse(<<TextPart("Let me check."),
                     FunctionCallPart(KnownTool, ArgsDict, NoSig, "")>>) }

OpenAIResponses ==
  { OpenAIResponse(AnswerText, <<>>),
    OpenAIResponse("", <<>>),
    OpenAIResponse("", <<ToolCall("call_1", KnownTool, ArgsJson)>>),
    OpenAIResponse(AnswerText, <<ToolCall("call_2", BogusTool, ""),
                                 ToolCall("call_3", KnownTool, ArgsJson)>>),
    OpenAIResponse("", <<ToolCall("call_4", KnownTool, ArgsJsonBad)>>),
    OpenAIResponse("", <<ToolCall("call_5", KnownTool, ArgsJsonList)>>) }

\* ---- GeminiProvider ----
GeminiProvider_has_function_call(resp) ==
  IF resp.parts = <<>> THEN FALSE
  ELSE resp.parts[1].kind = "function_call" /\ resp.parts[1].name # ""

\* the first part that carries a function call, NoPart for None
GeminiProvider_extract_function_call_part(resp) ==
  LET idx == {i \in 1..Len(resp.parts) : resp.parts[i].kind = "function_call"}
  IN IF idx = {} THEN NoPart
     ELSE resp.parts[CHOOSE i \in idx : \A j \in idx : i <= j]

GeminiProvider_extract_function_call(resp) ==
  LET part == GeminiProvider_extract_function_call_part(resp)
  IN IF part # NoPart
       THEN [ok |-> TRUE, name |-> part.name, args |-> part.args, is_dict |-> TRUE]
       ELSE [ok |-> FALSE, name |-> "", args |-> "", is_dict |-> FALSE]

GeminiProvider_extract_text(resp) ==
  LET idx == {i \in 1..Len(resp.parts) :
                resp.parts[i].kind = "text" /\ resp.parts[i].text # ""}
  IN IF idx = {} THEN ""
     ELSE resp.parts[CHOOSE i \in idx : \A j \in idx : i <= j].text

\* the model's own turn left out: only the function response is appended
GeminiProvider_build_function_response_no_model_turn(name, result, resp, function_call_part) ==
  << Turn("user", <<FunctionResponsePart(name, <<"result", JsonDumps(result)>>,
                                         function_call_part.thought_signature, "")>>) >>

\* the function response always built without thought_signature
GeminiProvider_build_function_response_no_signature(name, result, resp, function_call_part) ==
  << Turn("model", resp.parts),
     Turn("user", <<FunctionResponsePart(name, <<"result", JsonDumps(result)>>,
                                         NoSig, "")>>) >>

GeminiProvider_build_function_response(name, result, resp, function_call_part) ==
  LET model_content == Turn("model", resp.parts)
      thought_sig == function_call_part.thought_signature
      function_response_part ==
        IF thought_sig # NoSig
          THEN FunctionResponsePart(name, <<"result", JsonDumps(result)>>,
                                    thought_sig, "")
          ELSE FunctionResponsePart(name, <<"result", JsonDumps(result)>>, NoSig, "")
  IN << model_content, Turn("user", <<function_response_part>>) >>

\* generate: the contents list goes to generate_content as it is
GeminiProvider_generate_request(contents_) == contents_

GeminiProvider_build_content(role, text) == Turn(role, <<TextPart(text)>>)

\* ---- OpenAIProvider ----
OpenAIProvider_has_function_call(resp) == resp.tool_calls # <<>>

OpenAIProvider_extract_function_call_part(resp) ==
  IF resp.tool_calls = <<>> THEN NoPart ELSE resp.tool_calls[1]

OpenAIProvider_extract_function_call(resp) ==
  IF resp.tool_calls = <<>>
    THEN [ok |-> FALSE, name |-> "", args |-> "", is_dict |-> FALSE]
    ELSE LET tool_call == resp.tool_calls[1]
             parsed == JsonLoads(tool_call.args)
         IN IF tool_call.args = ""
              THEN [ok |-> TRUE, name |-> tool_call.name, args |-> "{}", is_dict |-> TRUE]
            ELSE IF parsed.ok
              THEN [ok |-> TRUE, name |-> tool_call.name, args |-> parsed.value,
                    is_dict |-> parsed.is_dict]
            ELSE [ok |-> FALSE, name |-> "", args |-> "", is_dict |-> FALSE]

OpenAIProvider_extract_text(resp) == resp.content

OpenAIProvider_build_function_response(name, result, resp, function_call_part) ==
  LET assistant_msg ==
        Turn("assistant", <<FunctionCallPart(function_call_part.name,
                                             function_call_part.args, NoSig,
                                             function_call_part.id)>>)
      tool_msg ==
        Turn("tool", <<FunctionResponsePart("", JsonDumps(result), NoSig,
                                            function_call_part.id)>>)
  IN <<assistant_msg, tool_msg>>

OpenAIProvider_build_content(role, text) == Turn(role, <<TextPart(text)>>)

SYSTEM_PROMPT == "system prompt"

\* only the two newest items are sent
OpenAIProvider_contents_to_messages_newest(contents_) ==
  << Turn("system", <<TextPart(SYSTEM_PROMPT)>>) >>
    \o (IF Len(contents_) <= 2 THEN contents_
        ELSE SubSeq(contents_, Len(contents_) - 1, Len(contents_)))

\* _contents_to_messages: the system message, then every item of contents;
\* each item this adapter builds is a dict, and a dict is appended as it is
OpenAIProvider_contents_to_messages(contents_) ==
  << Turn("system", <<TextPart(SYSTEM_PROMPT)>>) >> \o contents_

\* generate: the messages given to chat.completions.create
OpenAIProvider_generate_request(contents_) ==
  OpenAIProvider_contents_to_messages(contents_)

\* ---- the BaseLLMProvider interface, on the provider in use ----
has_function_call(p, resp) ==
  IF p = "gemini" THEN GeminiProvider_has_function_call(resp)
  ELSE OpenAIProvider_has_function_call(resp)
extract_function_call(p, resp) ==
  IF p = "gemini" THEN GeminiProvider_extract_function_call(resp)
  ELSE OpenAIProvider_extract_function_call(resp)
extract_function_call_part(p, resp) ==
  IF p = "gemini" THEN GeminiProvider_extract_function_call_part(resp)
  ELSE OpenAIProvider_extract_function_call_part(resp)
extract_text(p, resp) ==
  IF p = "gemini" THEN GeminiProvider_extract_text(resp)
  ELSE OpenAIProvider_extract_text(resp)
build_function_response(p, name, result, resp, function_call_part) ==
  IF p = "gemini"
    THEN GeminiProvider_build_function_response(name, result, resp, function_call_part)
    ELSE OpenAIProvider_build_function_response(name, result, resp, function_call_part)
build_content(p, role, text) ==
  IF p = "gemini" THEN GeminiProvider_build_content(role, text)
  ELSE OpenAIProvider_build_content(role, text)

generate_request(p, contents_) ==
  IF p = "gemini" THEN GeminiProvider_generate_request(contents_)
  ELSE OpenAIProvider_generate_request(contents_)

Responses(p) == IF p = "gemini" THEN GeminiResponses ELSE OpenAIResponses

(***************************************************************************)
(* Tool dispatcher (functions/registry.py)                                 *)
(***************************************************************************)
\* what a registered handler may do with a call
HandlerOutcomes == {"returns", "returns_error", "raises"}

\* the registry check answers an unknown name with an empty result
execute_function_silent_unknown(function_name, handler) ==
  IF function_name \notin FUNCTION_REGISTRY
    THEN [status |-> "", error |-> ""]
  ELSE IF handler = "raises"
    THEN [status |-> "", error |-> "Function execution failed"]
  ELSE IF handler = "returns_error"
    THEN [status |-> "error", error |-> "Product not found"]
  ELSE [status |-> "found", error |-> ""]

execute_function(function_name, handler) ==
  IF function_name \notin FUNCTION_REGISTRY
    THEN [status |-> "", error |-> "Unknown function"]
  ELSE IF handler = "raises"
    THEN [status |-> "", error |-> "Function execution failed"]
  ELSE IF handler = "returns_error"
    THEN [status |-> "error", error |-> "Product not found"]
  ELSE [status |-> "found", error |-> ""]

(***************************************************************************)
(* ChatService.process_message (services/chat_service.py)                  *)
(***************************************************************************)
Runs == {1, 2}

FUNCTION_LABELS(function_name) ==
  IF function_name = KnownTool THEN "Checking product cache"
  ELSE IF function_name = OtherTool THEN "Generating summary"
  ELSE function_name

UserMessage == "Tell me about Product X"
DegradedText == "I'm currently experiencing issues connecting to the AI service."
ErrorText == "I'm sorry, I encountered an error processing your request."
LimitText == "I gathered some information but reached my processing limit."

ProgressEvent(step, status, label) ==
  [type |-> "progress", step |-> step, status |-> status, label |-> label]
\* the events run_chat puts on the queue when process_message has returned,
\* and when it has raised
CompleteEvent == [type |-> "complete", step |-> "", status |-> "", label |-> ""]
ErrorEvent == [type |-> "error", step |-> "", status |-> "", label |-> ""]

VARIABLES
  gemini_breaker,    \* the module-level CircuitBreaker singleton
  now,               \* time.time()
  provider,          \* ChatService.provider: "gemini", "openai" or "none"
  requests,          \* process_message calls started so far
  pc,                \* where each run stands
  history,           \* the run's history list
  contents,          \* the run's contents list
  response,          \* the run's last backend response
  iteration,         \* the run's loop counter
  functions_called,  \* the run's functions_called list
  events,            \* what the run's request has put on its queue, in order
  final_response,    \* the run's final_response
  outcome,           \* "none", "returned" or "raised": how the call ended
  gen_calls,         \* provider.generate calls the run has issued
  dispatches,        \* execute_function calls the run has issued
  gen_log,           \* how each provider.generate call of the run ended
  last_call,         \* the latest call on the breaker and what it returned
  last_failure_call, \* when record_failure was last called, -1 for never
  failure_streak,    \* record_failure calls since the last record_success or reset
  last_transition,   \* the breaker's latest change of state: from where, by which call
  admitted_in,       \* the state allow_request saw when it admitted the run
  sent,              \* how many of the run's events the response stream has yielded
  request,           \* what the run's latest provider.generate call gave the backend
  saved,             \* the messages the run has stored with add_message, in order
  queue,             \* the asyncio.Queue of the run's streaming request
  yielded,           \* the events the response generator has yielded, in order
  gen_pc,            \* where the response generator of the run's request stands
  args,              \* the arguments of the latest call of a function on its own
  returned,          \* what that call returned
  lock,              \* the breaker's _lock: TRUE while held
  threads,           \* each thread's position inside a breaker method, and its locals
  sequential         \* the breaker as the calls made one after another leave it

vars == <<gemini_breaker, now, provider, requests, pc, history, contents,
          response, iteration, functions_called, events, final_response,
          outcome, gen_calls, dispatches, gen_log, last_call,
          last_failure_call, failure_streak, last_transition, admitted_in,
          sent, request, saved, queue, yielded, gen_pc, args, returned,
          lock, threads, sequential>>

breakerVars == <<gemini_breaker, last_call, last_failure_call, failure_streak,
                 last_transition>>
runVars == <<pc, history, contents, response, iteration, functions_called,
             events, final_response, outcome, gen_calls, dispatches, gen_log,
             admitted_in, sent, request, saved, queue, yielded, gen_pc>>
lockVars == <<lock, threads, sequential>>
pureVars == <<args, returned>>

\* threads calling the breaker at once
Threads == {1, 2}
\* a thread outside the breaker's methods
Idle == [pc |-> "idle", op |-> "none", n |-> 0, t |-> 0, seen |-> "none", ok |-> FALSE]

\* what allow_request returns, as a value that compares with what the other
\* calls return
Answer(allowed) == IF allowed THEN "True" ELSE "False"

\* a call on the breaker, as seen by its caller
Call(op, result) == [op |-> op, result |-> result]

\* what the call `op` that takes the breaker from b to b2 leaves as the
\* latest change of state
Transition(b, b2, op) ==
  IF b2.state # b.state THEN [from |-> b.state, op |-> op] ELSE last_transition

\* a response from which the adapter in use gets a tool call: a name and an
\* argument object
IsToolCall(p, resp) ==
  /\ has_function_call(p, resp)
  /\ extract_function_call(p, resp).ok
  /\ extract_function_call(p, resp).is_dict

\* conversation_crud.add_message: a stored message
StoredMessage(role, content) == [role |-> role, content |-> content]

\* the message is not stored
add_message_dropped(stored, role, content) == stored

\* crud/conversation.py lines 110-141: the message is added to the stored
\* ones and flushed
add_message(stored, role, content) == Append(stored, StoredMessage(role, content))

\* crud/conversation.py lines 158-172: the `limit` newest messages of the
\* conversation (ORDER BY created_at DESC LIMIT limit), put back in
\* chronological order; `messages` is the conversation in that order
get_recent_messages(messages, limit) ==
  IF Len(messages) <= limit THEN messages
  ELSE SubSeq(messages, Len(messages) - limit + 1, Len(messages))

\* lines 458-474: the recent messages without the first of them
\* (`messages[1:]`), each built with the provider's build_content under the
\* role "user" or "model"
build_chat_history_excluding_last(p, messages) ==
  LET recent == get_recent_messages(messages, recent_limit + 1)
      kept == IF recent # <<>> THEN Tail(recent) ELSE recent
  IN [i \in 1..Len(kept) |->
        build_content(p, IF kept[i].role = "user" THEN "user" ELSE "model",
                      kept[i].content)]

\* lines 195-204: the history of a run, in a new conversation and in one
\* that holds a question and its answer; the user message is stored first
Histories(p) ==
  { build_chat_history_excluding_last(p,
      Append(earlier, StoredMessage("user", UserMessage))) :
    earlier \in { <<>>,
                  << StoredMessage("user", "Earlier question"),
                     StoredMessage("assistant", "Earlier answer") >> } }

\* a queue of at most one item
Queue_full_bounded(q) == Len(q) >= 1

\* line 84 of endpoints/chat.py: asyncio.Queue() has no maxsize, so it is
\* never full and put never waits
Queue_full(q) == FALSE

\* lines 86-87, 99 and 102 of endpoints/chat.py: the events the step has
\* emitted are put on the request's queue
Enqueue(r) ==
  IF events'[r] = events[r]
    THEN UNCHANGED queue
    ELSE /\ ~Queue_full(queue[r])
         /\ queue' = [queue EXCEPT ![r] =
               @ \o SubSeq(events'[r], Len(events[r]) + 1, Len(events'[r]))]

Init ==
  /\ gemini_breaker = CircuitBreaker
  /\ now = recovery_timeout
  /\ provider \in {"gemini", "openai", "none"}
  /\ requests = 0
  /\ pc = [r \in Runs |-> "idle"]
  /\ history = [r \in Runs |-> <<>>]
  /\ contents = [r \in Runs |-> <<>>]
  /\ response = [r \in Runs |-> NoResponse]
  /\ iteration = [r \in Runs |-> 0]
  /\ functions_called = [r \in Runs |-> <<>>]
  /\ events = [r \in Runs |-> <<>>]
  /\ final_response = [r \in Runs |-> ""]
  /\ outcome = [r \in Runs |-> "none"]
  /\ gen_calls = [r \in Runs |-> 0]
  /\ dispatches = [r \in Runs |-> 0]
  /\ gen_log = [r \in Runs |-> <<>>]
  /\ last_call = Call("none", "none")
  /\ last_failure_call = -1
  /\ failure_streak = 0
  /\ last_transition = [from |-> "none", op |-> "none"]
  /\ admitted_in = [r \in Runs |-> "none"]
  /\ sent = [r \in Runs |-> 0]
  /\ request = [r \in Runs |-> <<>>]
  /\ saved = [r \in Runs |-> <<>>]
  /\ queue = [r \in Runs |-> <<>>]
  /\ yielded = [r \in Runs |-> <<>>]
  /\ gen_pc = [r \in Runs |-> "none"]
  /\ args = <<>>
  /\ returned = <<>>
  /\ lock = FALSE
  /\ threads = [t \in Threads |-> Idle]
  /\ sequential = CircuitBreaker

\* the clock advances
Tick ==
  /\ now < recovery_timeout + MaxTicks
  /\ now' = now + 1
  /\ UNCHANGED <<provider, requests>>
  /\ UNCHANGED breakerVars
  /\ UNCHANGED runVars
  /\ UNCHANGED lockVars
  /\ UNCHANGED pureVars

\* lines 169-204: the provider check, the conversation, the saved user
\* message and the history; the call's locals start afresh
Start(r) ==
  /\ pc[r] \in {"idle", "done"}
  /\ requests < MaxRequests
  /\ requests' = requests + 1
  /\ contents' = [contents EXCEPT ![r] = <<>>]
  /\ response' = [response EXCEPT ![r] = NoResponse]
  /\ iteration' = [iteration EXCEPT ![r] = 0]
  /\ functions_called' = [functions_called EXCEPT ![r] = <<>>]
  /\ events' = [events EXCEPT ![r] =
        IF provider = "none" THEN <<ErrorEvent>> ELSE <<>>]
  /\ final_response' = [final_response EXCEPT ![r] = ""]
  /\ gen_calls' = [gen_calls EXCEPT ![r] = 0]
  /\ dispatches' = [dispatches EXCEPT ![r] = 0]
  /\ gen_log' = [gen_log EXCEPT ![r] = <<>>]
  /\ IF provider = "none"
       THEN /\ pc' = [pc EXCEPT ![r] = "done"]
            /\ outcome' = [outcome EXCEPT ![r] = "raised"]
            /\ history' = [history EXCEPT ![r] = <<>>]
       ELSE /\ pc' = [pc EXCEPT ![r] = "check"]
            /\ outcome' = [outcome EXCEPT ![r] = "none"]
            /\ \E h \in Histories(provider) : history' = [history EXCEPT ![r] = h]
  /\ admitted_in' = [admitted_in EXCEPT ![r] = "none"]
  /\ sent' = [sent EXCEPT ![r] = 0]
  /\ request' = [request EXCEPT ![r] = <<>>]
  /\ saved' = [saved EXCEPT ![r] =
        IF provider = "none" THEN <<>> ELSE add_message(<<>>, "user", UserMessage)]
  /\ queue' = [queue EXCEPT ![r] = events'[r]]
  /\ yielded' = [yielded EXCEPT ![r] = <<>>]
  /\ gen_pc' = [gen_pc EXCEPT ![r] = "loop"]
  /\ UNCHANGED <<now, provider>>
  /\ UNCHANGED breakerVars
  /\ UNCHANGED lockVars
  /\ UNCHANGED pureVars

\* lines 206-262: the breaker check; when denied the degradation text, else
\* the contents list and the first provider.generate call
CheckBreaker(r) ==
  /\ pc[r] = "check"
  /\ LET b == state(gemini_breaker, now)
     IN /\ gemini_breaker' = b
        /\ last_call' = Call("allow_request", Answer(allow_request(b.state)))
        /\ last_transition' = Transition(gemini_breaker, b, "allow_request")
        /\ admitted_in' = [admitted_in EXCEPT ![r] =
                             IF allow_request(b.state) THEN b.state ELSE "none"]
        /\ IF ~allow_request(b.state)
             THEN /\ final_response' = [final_response EXCEPT ![r] = DegradedText]
                  /\ pc' = [pc EXCEPT ![r] = "degraded"]
                  /\ UNCHANGED <<contents, gen_calls, request>>
             ELSE /\ contents' = [contents EXCEPT ![r] =
                        Append(history[r], build_content(provider, "user", UserMessage))]
                  /\ request' = [request EXCEPT ![r] = generate_request(provider,
                        Append(history[r], build_content(provider, "user", UserMessage)))]
                  /\ gen_calls' = [gen_calls EXCEPT ![r] = 1]
                  /\ pc' = [pc EXCEPT ![r] = "generate_initial"]
                  /\ UNCHANGED final_response
  /\ UNCHANGED <<now, provider, requests, saved, queue, yielded, gen_pc,
                 sent, history, response, iteration,
                 functions_called, events, outcome, dispatches, gen_log,
                 last_failure_call, failure_streak>>
  /\ UNCHANGED lockVars
  /\ UNCHANGED pureVars

\* lines 218-243: the assistant message is saved and the reply returned
ReturnDegraded(r) ==
  /\ pc[r] = "degraded"
  /\ pc' = [pc EXCEPT ![r] = "done"]
  /\ outcome' = [outcome EXCEPT ![r] = "returned"]
  /\ events' = [events EXCEPT ![r] = Append(@, CompleteEvent)]
  /\ saved' = [saved EXCEPT ![r] =
        add_message(@, "assistant", final_response[r])]
  /\ Enqueue(r)
  /\ UNCHANGED <<now, provider, requests, yielded, gen_pc,
                 admitted_in, sent, request, history, contents,
                 response, iteration, functions_called, final_response,
                 gen_calls, dispatches, gen_log>>
  /\ UNCHANGED breakerVars
  /\ UNCHANGED lockVars
  /\ UNCHANGED pureVars

\* the loop test off by one: <= for <
while_condition_off_by_one(has_call, iter) ==
  has_call /\ iter <= MAX_FUNCTION_CALL_ITERATIONS

\* line 270: the condition of the while loop
while_condition(has_call, iter) ==
  has_call /\ iter < MAX_FUNCTION_CALL_ITERATIONS

\* the fallback at the iteration limit left out
fallback_text_none(text, iter) == text

\* lines 373-380: the final text, with the fallback at the iteration limit
fallback_text(text, iter) ==
  IF text = "" /\ iter >= MAX_FUNCTION_CALL_ITERATIONS THEN LimitText ELSE text

\* a name already in the list is not added again
append_called_unique(called, function_name) ==
  IF \E i \in 1..Len(called) : called[i] = function_name
    THEN called
    ELSE Append(called, function_name)

\* line 279: functions_called.append(function_name)
append_called(called, function_name) == Append(called, function_name)

\* the handler lets the error go: the call never gets to its reply
HandleException_propagates(r) ==
  /\ final_response' = [final_response EXCEPT ![r] = ErrorText]
  /\ functions_called' = [functions_called EXCEPT ![r] = <<>>]
  /\ pc' = [pc EXCEPT ![r] = "raised"]
  /\ UNCHANGED <<events, dispatches>>

\* lines 398-401: the outer handler of process_message
HandleException(r) ==
  /\ final_response' = [final_response EXCEPT ![r] = ErrorText]
  /\ functions_called' = [functions_called EXCEPT ![r] = <<>>]
  /\ pc' = [pc EXCEPT ![r] = "reply"]
  /\ UNCHANGED <<events, dispatches>>

\* the "generating" event emitted whether or not a tool was called
emit_generating_always(called) == TRUE

\* line 364: `if on_progress and functions_called`
emit_generating(called) == called # <<>>

\* lines 356-380: after the loop
AfterLoop(r, resp, iter, called) ==
  /\ events' = [events EXCEPT ![r] =
        IF emit_generating(called)
          THEN Append(@, ProgressEvent("generating", "running", "Generating response"))
          ELSE @]
  /\ final_response' = [final_response EXCEPT ![r] =
        fallback_text(extract_text(provider, resp), iter)]
  /\ functions_called' = [functions_called EXCEPT ![r] = called]
  /\ pc' = [pc EXCEPT ![r] = "reply"]
  /\ UNCHANGED dispatches

\* lines 270-303: the loop test and the loop body up to the awaited
\* execute_function call
LoopHead(r, resp, iter) ==
  IF while_condition(has_function_call(provider, resp), iter)
    THEN LET fc == extract_function_call(provider, resp)
         IN IF ~fc.ok
              THEN AfterLoop(r, resp, iter, functions_called[r])
            ELSE IF ~fc.is_dict
              THEN HandleException(r)
            ELSE /\ functions_called' =
                      [functions_called EXCEPT ![r] = append_called(@, fc.name)]
                 /\ events' = [events EXCEPT ![r] =
                      Append(@, ProgressEvent(fc.name, "running", FUNCTION_LABELS(fc.name)))]
                 /\ dispatches' = [dispatches EXCEPT ![r] = @ + 1]
                 /\ pc' = [pc EXCEPT ![r] = "execute"]
                 /\ UNCHANGED final_response
    ELSE AfterLoop(r, resp, iter, functions_called[r])

\* lines 262-263 and 348-354: a provider.generate call returns resp
GenerateReturns(r, resp) ==
  /\ pc[r] \in {"generate_initial", "generate"}
  /\ gemini_breaker' = record_success(gemini_breaker)
  /\ last_call' = Call("record_success", "none")
  /\ last_transition' =
       Transition(gemini_breaker, record_success(gemini_breaker), "record_success")
  /\ failure_streak' = 0
  /\ gen_log' = [gen_log EXCEPT ![r] =
        Append(@, IF IsToolCall(provider, resp) THEN "tool_call" ELSE "no_tool_call")]
  /\ response' = [response EXCEPT ![r] = resp]
  /\ LET iter == IF pc[r] = "generate" THEN iteration[r] + 1 ELSE 0
     IN /\ iteration' = [iteration EXCEPT ![r] = iter]
        /\ LoopHead(r, resp, iter)
  /\ Enqueue(r)
  /\ UNCHANGED <<now, provider, requests, saved, yielded, gen_pc,
                 admitted_in, sent, request, history, contents, outcome, gen_calls,
                 last_failure_call>>
  /\ UNCHANGED lockVars
  /\ UNCHANGED pureVars

\* lines 264-266 and 350-352: a provider.generate call raises
GenerateRaises(r) ==
  /\ pc[r] \in {"generate_initial", "generate"}
  /\ gemini_breaker' = record_failure(gemini_breaker, now)
  /\ last_call' = Call("record_failure", "none")
  /\ last_transition' =
       Transition(gemini_breaker, record_failure(gemini_breaker, now), "record_failure")
  /\ last_failure_call' = now
  /\ failure_streak' = failure_streak + 1
  /\ gen_log' = [gen_log EXCEPT ![r] = Append(@, "raised")]
  /\ HandleException(r)
  /\ Enqueue(r)
  /\ UNCHANGED <<now, provider, requests, saved, yielded, gen_pc,
                 admitted_in, sent, request, history, contents, response,
                 iteration, outcome, gen_calls>>
  /\ UNCHANGED lockVars
  /\ UNCHANGED pureVars

\* lines 299-348: execute_function returns; the done event, the provider's
\* function response items, and the next provider.generate call
ExecuteReturns(r, handler) ==
  /\ pc[r] = "execute"
  /\ LET fc == extract_function_call(provider, response[r])
         function_call_part == extract_function_call_part(provider, response[r])
         function_result == execute_function(fc.name, handler)
         response_items == build_function_response(provider, fc.name,
                              function_result, response[r], function_call_part)
     IN /\ events' = [events EXCEPT ![r] =
              Append(@, ProgressEvent(fc.name, "done", FUNCTION_LABELS(fc.name)))]
        /\ contents' = [contents EXCEPT ![r] = @ \o response_items]
        /\ request' = [request EXCEPT ![r] =
              generate_request(provider, contents[r] \o response_items)]
  /\ gen_calls' = [gen_calls EXCEPT ![r] = @ + 1]
  /\ pc' = [pc EXCEPT ![r] = "generate"]
  /\ Enqueue(r)
  /\ UNCHANGED <<now, provider, requests, saved, yielded, gen_pc,
                 admitted_in, sent, history, response, iteration,
                 functions_called, final_response, outcome, dispatches, gen_log>>
  /\ UNCHANGED breakerVars
  /\ UNCHANGED lockVars
  /\ UNCHANGED pureVars

\* lines 403-441: the assistant message is saved and the reply returned
ReturnReply(r) ==
  /\ pc[r] = "reply"
  /\ pc' = [pc EXCEPT ![r] = "done"]
  /\ outcome' = [outcome EXCEPT ![r] = "returned"]
  /\ events' = [events EXCEPT ![r] = Append(@, CompleteEvent)]
  /\ saved' = [saved EXCEPT ![r] =
        add_message(@, "assistant", final_response[r])]
  /\ Enqueue(r)
  /\ UNCHANGED <<now, provider, requests, yielded, gen_pc,
                 admitted_in, sent, request, history, contents,
                 response, iteration, functions_called, final_response,
                 gen_calls, dispatches, gen_log>>
  /\ UNCHANGED breakerVars
  /\ UNCHANGED lockVars
  /\ UNCHANGED pureVars

\* one ChatService at a time: requests follow one another
Next ==
  \/ Tick
  \/ Start(1)
  \/ CheckBreaker(1)
  \/ ReturnDegraded(1)
  \/ \E resp \in Responses(provider) : GenerateReturns(1, resp)
  \/ GenerateRaises(1)
  \/ \E handler \in HandlerOutcomes : ExecuteReturns(1, handler)
  \/ ReturnReply(1)

Spec == Init /\ [][Next]_vars

(***************************************************************************)
(* The breaker on its own: the calls of its interface, from any caller.    *)
(***************************************************************************)
ReadState ==
  /\ gemini_breaker' = state(gemini_breaker, now)
  /\ last_call' = Call("state", state(gemini_breaker, now).state)
  /\ last_transition' = Transition(gemini_breaker, state(gemini_breaker, now), "state")
  /\ UNCHANGED <<now, provider, requests, last_failure_call, failure_streak>>
  /\ UNCHANGED runVars
  /\ UNCHANGED lockVars
  /\ UNCHANGED pureVars

AllowRequest ==
  /\ gemini_breaker' = state(gemini_breaker, now)
  /\ last_call' = Call("allow_request",
                     Answer(allow_request(state(gemini_breaker, now).state)))
  /\ last_transition' =
       Transition(gemini_breaker, state(gemini_breaker, now), "allow_request")
  /\ UNCHANGED <<now, provider, requests, last_failure_call, failure_streak>>
  /\ UNCHANGED runVars
  /\ UNCHANGED lockVars
  /\ UNCHANGED pureVars

RecordSuccess ==
  /\ gemini_breaker' = record_success(gemini_breaker)
  /\ last_call' = Call("record_success", "none")
  /\ last_transition' =
       Transition(gemini_breaker, record_success(gemini_breaker), "record_success")
  /\ failure_streak' = 0
  /\ UNCHANGED <<now, provider, requests, last_failure_call>>
  /\ UNCHANGED runVars
  /\ UNCHANGED lockVars
  /\ UNCHANGED pureVars

RecordFailure ==
  /\ gemini_breaker.failure_count < MaxFailureCount
  /\ gemini_breaker' = record_failure(gemini_breaker, now)
  /\ last_call' = Call("record_failure", "none")
  /\ last_transition' =
       Transition(gemini_breaker, record_failure(gemini_breaker, now), "record_failure")
  /\ last_failure_call' = now
  /\ failure_streak' = failure_streak + 1
  /\ UNCHANGED <<now, provider, requests>>
  /\ UNCHANGED runVars
  /\ UNCHANGED lockVars
  /\ UNCHANGED pureVars

Reset ==
  /\ gemini_breaker' = reset(gemini_breaker)
  /\ last_call' = Call("reset", "none")
  /\ last_transition' = Transition(gemini_breaker, reset(gemini_breaker), "reset")
  /\ failure_streak' = 0
  /\ UNCHANGED <<now, provider, requests, last_failure_call>>
  /\ UNCHANGED runVars
  /\ UNCHANGED lockVars
  /\ UNCHANGED pureVars

NextBreaker ==
  \/ Tick
  \/ ReadState
  \/ AllowRequest
  \/ RecordSuccess
  \/ RecordFailure
  \/ Reset

SpecBreaker == Init /\ [][NextBreaker]_vars

(***************************************************************************)
(* Several requests in flight on the one event loop: the runs interleave   *)
(* at their awaits and share the breaker.                                  *)
(***************************************************************************)
ConcResponses(p) ==
  IF p = "gemini"
    THEN { GeminiResponse(<<TextPart(AnswerText)>>),
           GeminiResponse(<<FunctionCallPart(KnownTool, ArgsDict, NoSig, "")>>) }
    ELSE { OpenAIResponse(AnswerText, <<>>),
           OpenAIResponse("", <<ToolCall("call_1", KnownTool, ArgsJson)>>) }

NextConc ==
  \/ Tick
  \/ \E r \in Runs :
       \/ Start(r)
       \/ CheckBreaker(r)
       \/ ReturnDegraded(r)
       \/ \E resp \in ConcResponses(provider) : GenerateReturns(r, resp)
       \/ GenerateRaises(r)
       \/ ExecuteReturns(r, "returns")
       \/ ReturnReply(r)

SpecConc == Init /\ [][NextConc]_vars

(***************************************************************************)
(* The streaming endpoint (api/v1/endpoints/chat.py): process_message runs *)
(* as a task that puts its events on a queue, and the response generator   *)
(* yields them from the queue's head.                                      *)
(***************************************************************************)
\* The clock is left out of this specification: it acts on the breaker only,
\* and both of the breaker's answers at the entry check occur without it.
\* lines 107-117: the generator takes the next event off the queue and
\* yields it, in its first loop or in the drain that follows
Yield(r) ==
  /\ sent[r] < Len(events[r])
  /\ sent' = [sent EXCEPT ![r] = @ + 1]
  /\ UNCHANGED <<now, provider, requests, pc, history, contents, response,
                 iteration, functions_called, events, final_response, outcome,
                 gen_calls, dispatches, gen_log, admitted_in, request,
                 saved, queue, yielded, gen_pc>>
  /\ UNCHANGED breakerVars
  /\ UNCHANGED lockVars
  /\ UNCHANGED pureVars

\* a request to /chat/stream, once the stream before it has ended
StreamStart(r) ==
  /\ sent[r] = Len(events[r])
  /\ Start(r)

NextStream ==
  \/ StreamStart(1)
  \/ CheckBreaker(1)
  \/ ReturnDegraded(1)
  \/ \E resp \in Responses(provider) : GenerateReturns(1, resp)
  \/ GenerateRaises(1)
  \/ \E handler \in HandlerOutcomes : ExecuteReturns(1, handler)
  \/ ReturnReply(1)
  \/ Yield(1)

SpecStream == Init /\ [][NextStream]_vars

(***************************************************************************)
(* The breaker called from several threads.  Every method body runs inside *)
(* `with self._lock`; here each statement of a body is a step of its own,  *)
(* so that the steps of two callers interleave wherever the lock lets them.*)
(***************************************************************************)
Ops == {"state", "allow_request", "record_success", "record_failure", "reset"}
callVars == <<last_call, last_failure_call, failure_streak, last_transition>>

\* the lock taken whether it is held or not
Lock_acquire_unguarded(locked) == TRUE

\* Lock.acquire: goes ahead only when the lock is not held
Lock_acquire(locked) == ~locked

\* the method `op`, run alone on breaker b with time.time() = t
Apply(op, b, t) ==
  IF op \in {"state", "allow_request"} THEN state(b, t)
  ELSE IF op = "record_success" THEN record_success(b)
  ELSE IF op = "record_failure" THEN record_failure(b, t)
  ELSE reset(b)

Inside(th) == threads[th].pc \notin {"idle", "acquire"}
At(th, op, pc_) == threads[th].op = op /\ threads[th].pc = pc_
IsRead(th) == threads[th].op \in {"state", "allow_request"}

\* what a thread step leaves alone
ThreadFrame ==
  /\ UNCHANGED <<now, provider, requests>>
  /\ UNCHANGED callVars
  /\ UNCHANGED runVars
  /\ UNCHANGED pureVars

\* a caller enters one of the methods
ThreadCall(th, op) ==
  /\ threads[th].pc = "idle"
  /\ op = "record_failure" =>
       /\ gemini_breaker.failure_count < MaxFailureCount
       /\ sequential.failure_count < MaxFailureCount
  /\ threads' = [threads EXCEPT ![th] = [Idle EXCEPT !.pc = "acquire", !.op = op]]
  /\ UNCHANGED <<gemini_breaker, lock, sequential>>
  /\ ThreadFrame

\* `with self._lock:` entered
Acquire(th) ==
  /\ threads[th].pc = "acquire"
  /\ Lock_acquire(lock)
  /\ lock' = TRUE
  /\ threads' = [threads EXCEPT ![th].pc =
        IF IsRead(th) THEN "check"
        ELSE IF threads[th].op = "record_failure" THEN "read_count"
        ELSE "set_state"]
  /\ UNCHANGED <<gemini_breaker, sequential>>
  /\ ThreadFrame

\* state, lines 53-56: the test of the recovery time
StateCheck(th) ==
  /\ IsRead(th) /\ threads[th].pc = "check"
  /\ threads' = [threads EXCEPT
        ![th].t = now,
        ![th].ok = (/\ gemini_breaker.state = OPEN
                    /\ now - gemini_breaker.last_failure_time >= recovery_timeout),
        ![th].pc = "set"]
  /\ UNCHANGED <<gemini_breaker, lock, sequential>>
  /\ ThreadFrame

\* state, line 57: self._state = HALF_OPEN
StateSet(th) ==
  /\ IsRead(th) /\ threads[th].pc = "set"
  /\ gemini_breaker' = IF threads[th].ok
                         THEN [gemini_breaker EXCEPT !.state = HALF_OPEN]
                         ELSE gemini_breaker
  /\ threads' = [threads EXCEPT ![th].pc = "return"]
  /\ UNCHANGED <<lock, sequential>>
  /\ ThreadFrame

\* state, line 59: return self._state
StateReturn(th) ==
  /\ IsRead(th) /\ threads[th].pc = "return"
  /\ threads' = [threads EXCEPT ![th].seen = gemini_breaker.state,
                                ![th].pc = "release"]
  /\ UNCHANGED <<gemini_breaker, lock, sequential>>
  /\ ThreadFrame

\* record_success, line 76: self._state = CLOSED
SuccessSetState(th) ==
  /\ At(th, "record_success", "set_state")
  /\ gemini_breaker' = [gemini_breaker EXCEPT !.state = CLOSED]
  /\ threads' = [threads EXCEPT ![th].pc = "set_count"]
  /\ UNCHANGED <<lock, sequential>>
  /\ ThreadFrame

\* record_success, line 77: self._failure_count = 0
SuccessSetCount(th) ==
  /\ At(th, "record_success", "set_count")
  /\ gemini_breaker' = [gemini_breaker EXCEPT !.failure_count = 0]
  /\ threads' = [threads EXCEPT ![th].pc = "release"]
  /\ UNCHANGED <<lock, sequential>>
  /\ ThreadFrame

\* record_failure, line 82: the read of `self._failure_count += 1`
FailureReadCount(th) ==
  /\ At(th, "record_failure", "read_count")
  /\ threads' = [threads EXCEPT ![th].n = gemini_breaker.failure_count,
                                ![th].pc = "write_count"]
  /\ UNCHANGED <<gemini_breaker, lock, sequential>>
  /\ ThreadFrame

\* record_failure, line 82: the write of `self._failure_count += 1`
FailureWriteCount(th) ==
  /\ At(th, "record_failure", "write_count")
  /\ gemini_breaker' = [gemini_breaker EXCEPT !.failure_count = threads[th].n + 1]
  /\ threads' = [threads EXCEPT ![th].pc = "set_time"]
  /\ UNCHANGED <<lock, sequential>>
  /\ ThreadFrame

\* record_failure, line 83: self._last_failure_time = time.time()
FailureSetTime(th) ==
  /\ At(th, "record_failure", "set_time")
  /\ gemini_breaker' = [gemini_breaker EXCEPT !.last_failure_time = now]
  /\ threads' = [threads EXCEPT ![th].t = now, ![th].pc = "set_state"]
  /\ UNCHANGED <<lock, sequential>>
  /\ ThreadFrame

\* record_failure, lines 85-93: the move to OPEN
FailureSetState(th) ==
  /\ At(th, "record_failure", "set_state")
  /\ gemini_breaker' = [gemini_breaker EXCEPT !.state =
        IF gemini_breaker.state = HALF_OPEN THEN OPEN
        ELSE IF gemini_breaker.failure_count >= failure_threshold THEN OPEN
        ELSE @]
  /\ threads' = [threads EXCEPT ![th].pc = "release"]
  /\ UNCHANGED <<lock, sequential>>
  /\ ThreadFrame

\* reset, line 98: self._state = CLOSED
ResetSetState(th) ==
  /\ At(th, "reset", "set_state")
  /\ gemini_breaker' = [gemini_breaker EXCEPT !.state = CLOSED]
  /\ threads' = [threads EXCEPT ![th].pc = "set_count"]
  /\ UNCHANGED <<lock, sequential>>
  /\ ThreadFrame

\* reset, line 99: self._failure_count = 0
ResetSetCount(th) ==
  /\ At(th, "reset", "set_count")
  /\ gemini_breaker' = [gemini_breaker EXCEPT !.failure_count = 0]
  /\ threads' = [threads EXCEPT ![th].pc = "set_time"]
  /\ UNCHANGED <<lock, sequential>>
  /\ ThreadFrame

\* reset, line 100: self._last_failure_time = 0.0
ResetSetTime(th) ==
  /\ At(th, "reset", "set_time")
  /\ gemini_breaker' = [gemini_breaker EXCEPT !.last_failure_time = 0]
  /\ threads' = [threads EXCEPT ![th].pc = "release"]
  /\ UNCHANGED <<lock, sequential>>
  /\ ThreadFrame

\* the `with` block left: the lock is released and the method returns;
\* allow_request (lines 63-69) decides on the state it was given
Release(th) ==
  /\ threads[th].pc = "release"
  /\ lock' = FALSE
  /\ sequential' = Apply(threads[th].op, sequential, threads[th].t)
  /\ threads' = [threads EXCEPT
        ![th].pc = "idle",
        ![th].ok = IF threads[th].op = "allow_request"
                     THEN allow_request(threads[th].seen)
                     ELSE FALSE]
  /\ UNCHANGED gemini_breaker
  /\ ThreadFrame

NextLock ==
  \/ Tick
  \/ \E th \in Threads :
       \/ \E op \in Ops : ThreadCall(th, op)
       \/ Acquire(th)
       \/ StateCheck(th)
       \/ StateSet(th)
       \/ StateReturn(th)
       \/ SuccessSetState(th)
       \/ SuccessSetCount(th)
       \/ FailureReadCount(th)
       \/ FailureWriteCount(th)
       \/ FailureSetTime(th)
       \/ FailureSetState(th)
       \/ ResetSetState(th)
       \/ ResetSetCount(th)
       \/ ResetSetTime(th)
       \/ Release(th)

SpecLock == Init /\ [][NextLock]_vars

(***************************************************************************)
(* The loop of process_message as a function of what the backend answers,  *)
(* run with each adapter on the same answers.                              *)
(***************************************************************************)
\* what a backend answers, whatever its wire format: text, or a call of the
\* tool `name` (with the text the model sent along with it, and how the
\* tool's handler ends once dispatched: the result goes into the contents
\* list only, the loop never reads it)
AbstractText(text) ==
  [kind |-> "text", text |-> text, name |-> "", handler |-> "returns"]
AbstractToolCall(name, text, handler) ==
  [kind |-> "tool_call", text |-> text, name |-> name, handler |-> handler]

AbstractResponses ==
  { AbstractText(AnswerText),
    AbstractText(""),
    AbstractToolCall(KnownTool, "", "returns"),
    AbstractToolCall(KnownTool, "", "raises"),
    AbstractToolCall(BogusTool, "", "returns"),
    AbstractToolCall(KnownTool, "Let me check.", "returns") }

\* the answer as each backend's response object carries it: Gemini as the
\* parts of the first candidate, in the order the model produced them
\* (llm_service.py lines 83-95 and 109-133 read them); OpenAI as the
\* message's content and tool_calls (lines 292-321)
Encode(p, a) ==
  IF p = "gemini"
    THEN IF a.kind = "text"
           THEN IF a.text = "" THEN GeminiResponse(<<>>)
                ELSE GeminiResponse(<<TextPart(a.text)>>)
         ELSE IF a.text = ""
           THEN GeminiResponse(<<FunctionCallPart(a.name, ArgsDict, NoSig, "")>>)
         ELSE GeminiResponse(<<TextPart(a.text),
                               FunctionCallPart(a.name, ArgsDict, NoSig, "")>>)
    ELSE IF a.kind = "text"
           THEN OpenAIResponse(a.text, <<>>)
           ELSE OpenAIResponse(a.text, <<ToolCall("call_1", a.name, ArgsJson)>>)

\* what a caller observes of one run of the loop
LoopResult(gen, called, evs, text) ==
  [gen_calls |-> gen, dispatched |-> called, events |-> evs, final_response |-> text]

\* chat_service.py lines 260-380: the loop from the i-th backend answer on,
\* with the adapter p
RECURSIVE process_loop(_, _, _, _, _, _)
process_loop(p, script, i, iter, called, evs) ==
  LET resp == Encode(p, script[i])
      fc == extract_function_call(p, resp)
      after == LoopResult(i, called,
                 IF emit_generating(called)
                   THEN Append(evs, ProgressEvent("generating", "running",
                                                  "Generating response"))
                   ELSE evs,
                 fallback_text(extract_text(p, resp), iter))
  IN IF ~while_condition(has_function_call(p, resp), iter) THEN after
     ELSE IF ~fc.ok THEN after
     ELSE IF ~fc.is_dict THEN LoopResult(i, <<>>, evs, ErrorText)
     ELSE process_loop(p, script, i + 1, iter + 1,
            append_called(called, fc.name),
            evs \o << ProgressEvent(fc.name, "running", FUNCTION_LABELS(fc.name)),
                      ProgressEvent(fc.name, "done", FUNCTION_LABELS(fc.name)) >>)

\* the backend's answers to one run: as many as the longest run asks for
Scripts == [1..(MAX_FUNCTION_CALL_ITERATIONS + 1) -> AbstractResponses]

\* the same answers given to a run with each adapter, once per behaviour
RunBothAdapters ==
  /\ returned = <<>>
  /\ \E script \in Scripts :
       /\ args' = script
       /\ returned' = [gemini |-> process_loop("gemini", script, 1, 0, <<>>, <<>>),
                       openai |-> process_loop("openai", script, 1, 0, <<>>, <<>>)]
  /\ UNCHANGED <<gemini_breaker, now, provider, requests, last_call,
                 last_failure_call, failure_streak, last_transition>>
  /\ UNCHANGED runVars
  /\ UNCHANGED lockVars

NextAdapters == RunBothAdapters

SpecAdapters == Init /\ [][NextAdapters]_vars

(***************************************************************************)
(* The dispatcher on its own (functions/registry.py): execute_function     *)
(* called with any name, whatever the handler then does.                   *)
(***************************************************************************)
ToolNames == {KnownTool, OtherTool, BogusTool}

\* the handler's exception leaves execute_function
execute_function_outcome_uncaught(function_name, handler) ==
  [raised |-> function_name \in FUNCTION_REGISTRY /\ handler = "raises",
   handler_called |-> function_name \in FUNCTION_REGISTRY,
   result |-> execute_function(function_name, handler)]

\* lines 310-323: how a call of execute_function ends. The lookup returns
\* before any handler is fetched (310-312); the handler runs inside
\* `try ... except Exception`, which turns what it raises into a result
execute_function_outcome(function_name, handler) ==
  [raised |-> FALSE,
   handler_called |-> function_name \in FUNCTION_REGISTRY,
   result |-> execute_function(function_name, handler)]

\* handler invocations so far
HandlerCalls == IF returned = <<>> THEN 0 ELSE returned.handler_calls

\* one call of execute_function
Dispatch ==
  /\ HandlerCalls < MaxHandlerCalls
  /\ \E function_name \in ToolNames, handler \in HandlerOutcomes :
       LET o == execute_function_outcome(function_name, handler)
       IN /\ args' = [function_name |-> function_name, handler |-> handler]
          /\ returned' = [raised |-> o.raised,
                          result |-> o.result,
                          handler_calls |-> HandlerCalls +
                                            (IF o.handler_called THEN 1 ELSE 0)]
  /\ UNCHANGED <<gemini_breaker, now, provider, requests, last_call,
                 last_failure_call, failure_streak, last_transition>>
  /\ UNCHANGED runVars
  /\ UNCHANGED lockVars

NextDispatcher == Dispatch

SpecDispatcher == Init /\ [][NextDispatcher]_vars

(***************************************************************************)
(* Progress of a run.  The event loop resumes a coroutine whenever what it *)
(* awaits is done, so the steps process_message takes on its own are       *)
(* weakly fair.  Whether an awaited provider.generate or execute_function  *)
(* call ever ends is up to the backend and the tool.                       *)
(***************************************************************************)
\* The clock is left out here as well: no step of a run waits for it.
NextLive ==
  \/ Start(1)
  \/ CheckBreaker(1)
  \/ ReturnDegraded(1)
  \/ \E resp \in ConcResponses(provider) : GenerateReturns(1, resp)
  \/ GenerateRaises(1)
  \/ \E handler \in HandlerOutcomes : ExecuteReturns(1, handler)
  \/ ReturnReply(1)

\* the steps between the awaits
\* (each of these steps moves the run's pc)
OwnStepsFair ==
  /\ WF_pc(CheckBreaker(1))
  /\ WF_pc(ReturnDegraded(1))
  /\ WF_pc(ReturnReply(1))

\* every awaited call ends: it returns or it raises
AwaitedCallsEnd ==
  /\ WF_pc((\E resp \in ConcResponses(provider) : GenerateReturns(1, resp))
                \/ GenerateRaises(1))
  /\ WF_pc(\E handler \in HandlerOutcomes : ExecuteReturns(1, handler))

\* lines 262 and 299-303 and 348: the awaits carry no timeout, so a call that
\* never ends is never abandoned
SpecHang == Init /\ [][NextLive]_vars /\ OwnStepsFair

\* the same program when every awaited call does end
SpecLive == Init /\ [][NextLive]_vars /\ OwnStepsFair /\ AwaitedCallsEnd

(***************************************************************************)
(* Provider selection (llm_service.get_llm_provider) on its own, under     *)
(* any settings.                                                           *)
(***************************************************************************)
\* values of settings.LLM_PROVIDER, and of the two API keys
ProviderNames ==
  {"openai", "OpenAI", "OPENAI", "gemini", "Gemini", "anthropic", "open ai", ""}
ApiKeys == {"", "test-key"}

\* the name compared as it is written
lower_verbatim(s) == s

\* str.lower() on the names above
lower(s) ==
  IF s \in {"OpenAI", "OPENAI"} THEN "openai"
  ELSE IF s = "Gemini" THEN "gemini"
  ELSE s

\* lines 378-392: the factory; it raises RuntimeError or returns an adapter
get_llm_provider(settings) ==
  LET provider_name == lower(settings.LLM_PROVIDER)
  IN IF provider_name = "openai"
       THEN IF settings.OPENAI_API_KEY = ""
              THEN [raised |-> TRUE, provider |-> "none"]
              ELSE [raised |-> FALSE, provider |-> "openai"]
     ELSE IF settings.GEMINI_API_KEY = ""
       THEN [raised |-> TRUE, provider |-> "none"]
     ELSE [raised |-> FALSE, provider |-> "gemini"]

\* chat_service.py lines 140-148: ChatService keeps the adapter, or None when
\* the factory raised
init_provider(settings) ==
  IF get_llm_provider(settings).raised THEN "none"
  ELSE get_llm_provider(settings).provider

\* the process starts under some settings
Configure ==
  /\ \E name \in ProviderNames, openai_key \in ApiKeys, gemini_key \in ApiKeys :
       args' = [LLM_PROVIDER |-> name, OPENAI_API_KEY |-> openai_key,
                GEMINI_API_KEY |-> gemini_key]
  /\ returned' = <<>>
  /\ UNCHANGED <<gemini_breaker, now, provider, requests, last_call,
                 last_failure_call, failure_streak, last_transition>>
  /\ UNCHANGED runVars
  /\ UNCHANGED lockVars

\* get_llm_provider is called, as ChatService does when it is built
GetProvider ==
  /\ args # <<>>
  /\ returned' = [raised |-> get_llm_provider(args).raised,
                  provider |-> get_llm_provider(args).provider,
                  service_provider |-> init_provider(args)]
  /\ UNCHANGED <<gemini_breaker, now, provider, requests, last_call,
                 last_failure_call, failure_streak, last_transition, args>>
  /\ UNCHANGED runVars
  /\ UNCHANGED lockVars

NextProvider ==
  \/ Configure
  \/ GetProvider

SpecProvider == Init /\ [][NextProvider]_vars

(***************************************************************************)
(* The contents of a run's first provider.generate call as a function of   *)
(* the conversation stored so far.                                         *)
(***************************************************************************)
\* conversations stored before the request: up to MaxStored messages
MessageTexts == {"Earlier question", "Earlier answer"}
StoredMessages ==
  { StoredMessage(role, content) :
      role \in {"user", "assistant"}, content \in MessageTexts }
Conversations ==
  UNION { [1..n -> StoredMessages] : n \in 0..MaxStored }

\* lines 195-204 and 254-258: the user message is stored, the history is
\* built from the conversation, and the contents list is the history with
\* the user message appended
first_contents(p, earlier, message) ==
  LET stored == Append(earlier, StoredMessage("user", message))
      history_ == build_chat_history_excluding_last(p, stored)
  IN Append(history_, build_content(p, "user", message))

\* a request arrives in a conversation
BuildContents ==
  /\ provider # "none"
  /\ returned = <<>>
  /\ \E earlier \in Conversations :
       /\ args' = [earlier |-> earlier, message |-> UserMessage]
       /\ returned' = first_contents(provider, earlier, UserMessage)
  /\ UNCHANGED <<gemini_breaker, now, provider, requests, last_call,
                 last_failure_call, failure_streak, last_transition>>
  /\ UNCHANGED runVars
  /\ UNCHANGED lockVars

NextHistory == BuildContents

SpecHistory == Init /\ [][NextHistory]_vars

(***************************************************************************)
(* The streaming endpoint with its queue and its generator spelled out     *)
(* (api/v1/endpoints/chat.py lines 84-117): run_chat is the task that puts *)
(* events, generate() the consumer that gets and yields them.              *)
(***************************************************************************)
\* the stream is closed as soon as the task is done
generate_next_no_drain(task_done) == IF task_done THEN "ended" ELSE "waiting"

\* line 107, `while not task.done()`: into the body, or on to the drain
generate_next(task_done) == IF task_done THEN "drain" ELSE "waiting"

\* run_chat has put its last event and finished
TaskDone(r) == pc[r] = "done"

GeneratorFrame ==
  /\ UNCHANGED <<now, provider, requests, pc, history, contents, response,
                 iteration, functions_called, events, final_response, outcome,
                 gen_calls, dispatches, gen_log, admitted_in, request, sent,
                 saved>>
  /\ UNCHANGED breakerVars
  /\ UNCHANGED lockVars
  /\ UNCHANGED pureVars

\* line 107: the test of the first loop
GenerateTest(r) ==
  /\ gen_pc[r] = "loop"
  /\ gen_pc' = [gen_pc EXCEPT ![r] = generate_next(TaskDone(r))]
  /\ UNCHANGED <<queue, yielded>>
  /\ GeneratorFrame

\* lines 109-110: queue.get() gives the head of the queue within the second,
\* and the event is yielded
GenerateGet(r) ==
  /\ gen_pc[r] = "waiting"
  /\ queue[r] # <<>>
  /\ yielded' = [yielded EXCEPT ![r] = Append(@, Head(queue[r]))]
  /\ queue' = [queue EXCEPT ![r] = Tail(@)]
  /\ gen_pc' = [gen_pc EXCEPT ![r] = "loop"]
  /\ GeneratorFrame

\* lines 111-112: no event within the second, the loop goes round
GenerateTimeout(r) ==
  /\ gen_pc[r] = "waiting"
  /\ queue[r] = <<>>
  /\ gen_pc' = [gen_pc EXCEPT ![r] = "loop"]
  /\ UNCHANGED <<queue, yielded>>
  /\ GeneratorFrame

\* lines 115-117: the drain takes what is left
GenerateDrain(r) ==
  /\ gen_pc[r] = "drain"
  /\ queue[r] # <<>>
  /\ yielded' = [yielded EXCEPT ![r] = Append(@, Head(queue[r]))]
  /\ queue' = [queue EXCEPT ![r] = Tail(@)]
  /\ UNCHANGED gen_pc
  /\ GeneratorFrame

\* line 115: queue.empty(), the generator returns and the stream ends
GenerateEnd(r) ==
  /\ gen_pc[r] = "drain"
  /\ queue[r] = <<>>
  /\ gen_pc' = [gen_pc EXCEPT ![r] = "ended"]
  /\ UNCHANGED <<queue, yielded>>
  /\ GeneratorFrame

\* a request to /chat/stream, once the stream before it has ended: line 105
\* starts the task
QueueStart(r) ==
  /\ gen_pc[r] \in {"none", "ended"}
  /\ Start(r)

\* The events do not depend on what a tool returns, nor on the clock.
NextQueue ==
  \/ QueueStart(1)
  \/ CheckBreaker(1)
  \/ ReturnDegraded(1)
  \/ \E resp \in ConcResponses(provider) : GenerateReturns(1, resp)
  \/ GenerateRaises(1)
  \/ ExecuteReturns(1, "returns")
  \/ ReturnReply(1)
  \/ GenerateTest(1)
  \/ GenerateGet(1)
  \/ GenerateTimeout(1)
  \/ GenerateDrain(1)
  \/ GenerateEnd(1)

\* the event loop resumes the generator whenever it can go on
GeneratorFair ==
  /\ WF_gen_pc(GenerateTest(1))
  /\ WF_yielded(GenerateGet(1))
  /\ WF_yielded(GenerateDrain(1))
  /\ WF_gen_pc(GenerateEnd(1))

SpecQueue == Init /\ [][NextQueue]_vars /\ GeneratorFair

(***************************************************************************)
(* Properties                                                              *)
(***************************************************************************)
Last(seq) == seq[Len(seq)]

\* C1: a run calls provider.generate at most MAX_FUNCTION_CALL_ITERATIONS + 1
\* times, and its iteration counter never exceeds MAX_FUNCTION_CALL_ITERATIONS.
C1_GenerateCallsBounded ==
  \A r \in Runs :
    /\ gen_calls[r] <= MAX_FUNCTION_CALL_ITERATIONS + 1
    /\ iteration[r] <= MAX_FUNCTION_CALL_ITERATIONS
    /\ Len(gen_log[r]) <= gen_calls[r]

\* a run that has used up the bound: the last of its
\* MAX_FUNCTION_CALL_ITERATIONS + 1 calls has returned
C1_Witness ==
  /\ gen_calls[1] = MAX_FUNCTION_CALL_ITERATIONS + 1
  /\ Len(gen_log[1]) = MAX_FUNCTION_CALL_ITERATIONS + 1
  /\ iteration[1] = MAX_FUNCTION_CALL_ITERATIONS

\* ---- the shape of the contents list ----
IsToolCallTurn(turn) ==
  \E i \in 1..Len(turn.parts) : turn.parts[i].kind = "function_call"
IsToolResultTurn(turn) ==
  Len(turn.parts) = 1 /\ turn.parts[1].kind = "function_response"
\* the call a tool-call turn is executed for: its first function call
FirstCall(turn) ==
  turn.parts[CHOOSE i \in 1..Len(turn.parts) :
               /\ turn.parts[i].kind = "function_call"
               /\ \A j \in 1..(i - 1) : turn.parts[j].kind # "function_call"]
\* the result turn answers the call turn: by the tool's name (Gemini), by the
\* call's id (OpenAI, whose tool message carries no name)
Answers(p, call_turn, result_turn) ==
  /\ IsToolResultTurn(result_turn)
  /\ IF p = "gemini"
       THEN /\ call_turn.role = "model" /\ result_turn.role = "user"
            /\ result_turn.parts[1].name = FirstCall(call_turn).name
       ELSE /\ call_turn.role = "assistant" /\ result_turn.role = "tool"
            /\ result_turn.parts[1].id = FirstCall(call_turn).id
            /\ result_turn.parts[1].id # ""
\* where the turns of the loop start: after the history and the user message
Base(r) == Len(history[r]) + 1

\* C2: whenever a run has issued n generate calls, its contents list is the
\* history, the user message and n - 1 pairs, each a tool-call turn directly
\* followed by the one tool-result turn for the same tool; no tool-call turn
\* stands without its result turn right after it, and no result turn without
\* its call turn right before it.
C2_CallResultPairs ==
  \A r \in Runs :
    gen_calls[r] >= 1 =>
      /\ Len(contents[r]) = Base(r) + 2 * (gen_calls[r] - 1)
      /\ \A k \in 1..(gen_calls[r] - 1) :
           LET call_turn == contents[r][Base(r) + 2 * k - 1]
               result_turn == contents[r][Base(r) + 2 * k]
           IN /\ IsToolCallTurn(call_turn)
              /\ Answers(provider, call_turn, result_turn)
              /\ k <= Len(functions_called[r]) =>
                   FirstCall(call_turn).name = functions_called[r][k]
      /\ \A i \in 1..Len(contents[r]) :
           /\ IsToolCallTurn(contents[r][i]) =>
                i < Len(contents[r]) /\ Answers(provider, contents[r][i], contents[r][i + 1])
           /\ IsToolResultTurn(contents[r][i]) =>
                i > 1 /\ IsToolCallTurn(contents[r][i - 1])

\* a generate call in flight after two tools ran, on a non-empty history
C2_Witness ==
  /\ pc[1] = "generate"
  /\ gen_calls[1] = 3
  /\ history[1] # <<>>
  /\ functions_called[1] = <<KnownTool, BogusTool>>

\* the breaker is open and recovery_timeout has not elapsed since its
\* last_failure_time
BreakerDenies ==
  /\ gemini_breaker.state = OPEN
  /\ now - gemini_breaker.last_failure_time < recovery_timeout

\* C3: a run whose allow_request() at the breaker check returns false, as it
\* does whenever the breaker is open and recovery_timeout has not elapsed,
\* makes no generate call and no tool dispatch and returns normally with the
\* fixed degradation text.
C3_DeniedRunCallsNothing ==
  [][\A r \in Runs :
       /\ (pc[r] = "check" /\ pc'[r] # "check" /\ BreakerDenies)
            => last_call' = Call("allow_request", Answer(FALSE))
       /\ (pc[r] = "check" /\ pc'[r] # "check" /\ last_call' = Call("allow_request", Answer(FALSE)))
            => pc'[r] = "degraded"
       /\ pc'[r] = "degraded"
            => /\ gen_calls'[r] = 0 /\ dispatches'[r] = 0 /\ gen_log'[r] = <<>>
               /\ final_response'[r] = DegradedText
       /\ (pc[r] = "degraded" /\ pc'[r] # "degraded")
            => /\ pc'[r] = "done" /\ outcome'[r] = "returned"
               /\ gen_calls'[r] = 0 /\ dispatches'[r] = 0
               /\ final_response'[r] = DegradedText
    ]_vars

\* a run denied right after failure_threshold failed runs has returned
C3_Witness ==
  /\ pc[1] = "done" /\ outcome[1] = "returned"
  /\ final_response[1] = DegradedText
  /\ gen_calls[1] = 0 /\ dispatches[1] = 0
  /\ gemini_breaker.state = OPEN
  /\ gemini_breaker.failure_count = failure_threshold

\* the run's latest generate call raised
RaisedLast(r) == gen_log[r] # <<>> /\ Last(gen_log[r]) = "raised"

\* C4 as stated: a generate call that raises makes process_message raise to
\* its caller.
C4_ErrorReachesCaller ==
  \A r \in Runs : (pc[r] = "done" /\ RaisedLast(r)) => outcome[r] = "raised"

\* C4, amended: a generate call that raises records exactly one breaker
\* failure and is followed by no generate call and no tool dispatch of the
\* run; the outer handler of process_message catches the exception, and the
\* call returns normally with the fixed apology text and an empty
\* functions_called.
C4_ErrorBecomesApology ==
  /\ [](\A r \in Runs :
          RaisedLast(r) =>
            /\ pc[r] \in {"reply", "done"}
            /\ gen_calls[r] = Len(gen_log[r])
            /\ final_response[r] = ErrorText
            /\ functions_called[r] = <<>>
            /\ pc[r] = "done" => outcome[r] = "returned")
  /\ [][\A r \in Runs :
          (gen_log'[r] # gen_log[r] /\ RaisedLast(r)')
            => /\ gemini_breaker'.failure_count = gemini_breaker.failure_count + 1
               /\ last_failure_call' = now
               /\ dispatches'[r] = dispatches[r]
               /\ gen_calls'[r] = gen_calls[r]
     ]_vars

\* a generate call inside the loop raised, and the call has returned
C4_Witness ==
  /\ pc[1] = "done" /\ outcome[1] = "returned"
  /\ Len(gen_log[1]) >= 2 /\ RaisedLast(1)
  /\ dispatches[1] >= 1
  /\ final_response[1] = ErrorText

\* the error field of the result a tool-result turn carries
ResultError(p, turn) ==
  IF p = "gemini" THEN turn.parts[1].result[2][3] ELSE turn.parts[1].result[3]

\* C5: whatever a tool dispatch gives (an unknown name, a handler that raises
\* or returns an error), the run goes on: the result is appended as a
\* tool-result turn, with an error field when the name is unknown, and the
\* next generate call is issued.
C5_ToolFailureContinues ==
  [][\A r \in Runs :
       (pc[r] = "execute" /\ pc'[r] # "execute") =>
         /\ pc'[r] = "generate"
         /\ outcome'[r] = "none"
         /\ gen_calls'[r] = gen_calls[r] + 1
         /\ Len(contents'[r]) = Len(contents[r]) + 2
         /\ IsToolResultTurn(Last(contents'[r]))
         /\ Last(functions_called[r]) \notin FUNCTION_REGISTRY
              => ResultError(provider, Last(contents'[r])) = "Unknown function"
    ]_vars

\* the model answered after it got back the error of a handler that raised
\* and the error of an unknown tool
C5_Witness ==
  /\ Len(gen_log[1]) = 3
  /\ functions_called[1] = <<KnownTool, BogusTool>>
  /\ ResultError(provider, contents[1][Base(1) + 2]) = "Function execution failed"
  /\ ResultError(provider, contents[1][Base(1) + 4]) = "Unknown function"
  /\ pc[1] = "done" /\ final_response[1] = AnswerText

\* the text a response carries, read off the response itself
CarriedText(resp) ==
  IF resp.prov = "openai" THEN resp.content
  ELSE IF \E i \in 1..Len(resp.parts) : resp.parts[i].kind = "text"
    THEN resp.parts[CHOOSE i \in 1..Len(resp.parts) :
                      /\ resp.parts[i].kind = "text"
                      /\ \A j \in 1..(i - 1) : resp.parts[j].kind # "text"].text
  ELSE ""
\* a response with a text and no function call at all
TextOnly(resp) ==
  /\ CarriedText(resp) # ""
  /\ resp.tool_calls = <<>>
  /\ \A i \in 1..Len(resp.parts) : resp.parts[i].kind # "function_call"
\* every response of the run so far was a tool call (IsToolCall)
AllToolCalls(r) ==
  /\ gen_log[r] # <<>>
  /\ \A i \in 1..Len(gen_log[r]) : gen_log[r][i] = "tool_call"
Finished(r) == pc[r] \in {"reply", "done"}

\* C6: a run whose every response is a tool call (one the adapter gets a
\* name and an argument object from) dispatches exactly
\* MAX_FUNCTION_CALL_ITERATIONS tools and then stops; its final text is the
\* fixed processing-limit text when the last response carries no text, and
\* that response's text otherwise.
C6_RunawayLoopHalts ==
  \A r \in Runs :
    AllToolCalls(r) =>
      /\ dispatches[r] <= MAX_FUNCTION_CALL_ITERATIONS
      /\ Finished(r) =>
           /\ dispatches[r] = MAX_FUNCTION_CALL_ITERATIONS
           /\ gen_calls[r] = MAX_FUNCTION_CALL_ITERATIONS + 1
           /\ Len(functions_called[r]) = MAX_FUNCTION_CALL_ITERATIONS
           /\ final_response[r] =
                IF CarriedText(response[r]) = "" THEN LimitText
                ELSE CarriedText(response[r])
           /\ pc[r] = "done" => outcome[r] = "returned"

\* a runaway run has returned the processing-limit text
C6_Witness ==
  /\ AllToolCalls(1) /\ pc[1] = "done"
  /\ dispatches[1] = MAX_FUNCTION_CALL_ITERATIONS
  /\ final_response[1] = LimitText

\* the run got k tool calls and then a text-only response
ToolCallsThenText(r, k) ==
  /\ Len(gen_log[r]) = k + 1
  /\ \A i \in 1..k : gen_log[r][i] = "tool_call"
  /\ gen_log[r][k + 1] = "no_tool_call"
  /\ TextOnly(response[r])

\* C7: after k < MAX_FUNCTION_CALL_ITERATIONS tool calls and then a text-only
\* response the run has made k + 1 generate calls and k dispatches, its final
\* text is that text, and functions_called holds the k tool names in call
\* order, duplicates kept.
C7_NormalFlow ==
  \A r \in Runs : \A k \in 0..(MAX_FUNCTION_CALL_ITERATIONS - 1) :
    (ToolCallsThenText(r, k) /\ Finished(r)) =>
      /\ gen_calls[r] = k + 1
      /\ dispatches[r] = k
      /\ final_response[r] = CarriedText(response[r])
      /\ Len(functions_called[r]) = k
      /\ \A j \in 1..k :
           functions_called[r][j] = FirstCall(contents[r][Base(r) + 2 * j - 1]).name
      /\ pc[r] = "done" => outcome[r] = "returned"

\* the same tool ran twice, then the model answered
C7_Witness ==
  /\ ToolCallsThenText(1, 2) /\ pc[1] = "done"
  /\ functions_called[1] = <<KnownTool, KnownTool>>
  /\ final_response[1] = AnswerText
  /\ gen_calls[1] = 3

\* C8 as stated: no generate call, the first or a repeat inside the loop, is
\* issued while the breaker is open and recovery_timeout has not elapsed.
C8_EveryGenerateGated ==
  [][\A r \in Runs : gen_calls'[r] = gen_calls[r] + 1 => ~BreakerDenies]_vars

\* a call on the breaker happens in this step (a repeated call that changes
\* nothing is no step)
BreakerCallStep(ops) == last_call'.op \in ops /\ now' = now
\* recovery_timeout has elapsed since record_failure was last called
RecoveryElapsed == now - last_failure_call >= recovery_timeout

\* C9: counted from the last record_success or reset (the breaker closed, its
\* count 0), fewer than failure_threshold record_failure calls leave the
\* breaker closed and the failure_threshold-th moves it to open; an
\* allow_request on an open breaker before recovery_timeout has elapsed since
\* the last record_failure call returns false and leaves it open.
C9_OpensAtThreshold ==
  /\ [](/\ failure_streak < failure_threshold => gemini_breaker.state = CLOSED
        /\ failure_streak >= failure_threshold => gemini_breaker.state # CLOSED)
  /\ [][/\ (failure_streak' = failure_streak + 1 /\ failure_streak' = failure_threshold)
             => (gemini_breaker.state = CLOSED /\ gemini_breaker'.state = OPEN)
        /\ (BreakerCallStep({"allow_request"}) /\ gemini_breaker.state = OPEN
              /\ ~RecoveryElapsed)
             => (last_call'.result = Answer(FALSE) /\ gemini_breaker'.state = OPEN)
     ]_vars

\* the failure_threshold-th failure in a row opened the breaker, and an
\* allow_request right after it was refused
C9_Witness ==
  /\ failure_streak = failure_threshold
  /\ gemini_breaker.state = OPEN
  /\ last_call.op = "allow_request"
  /\ last_call.result = Answer(FALSE)
  /\ now = last_failure_call

\* C10: on an open breaker, once recovery_timeout has elapsed since the last
\* record_failure call, a read of state, direct or through allow_request,
\* moves it to half_open, and allow_request returns true; nothing but such a
\* read moves the breaker from open to half_open.
C10_HalfOpenOnRead ==
  [][/\ (BreakerCallStep({"state", "allow_request"}) /\ gemini_breaker.state = OPEN
           /\ RecoveryElapsed)
          => /\ gemini_breaker'.state = HALF_OPEN
             /\ last_call'.op = "state" => last_call'.result = HALF_OPEN
             /\ last_call'.op = "allow_request" => last_call'.result = Answer(TRUE)
     /\ (gemini_breaker.state = OPEN /\ gemini_breaker'.state = HALF_OPEN)
          => /\ BreakerCallStep({"state", "allow_request"})
             /\ RecoveryElapsed
             /\ gemini_breaker'.failure_count = gemini_breaker.failure_count
    ]_vars

\* allow_request found the recovery time elapsed and let the request through
C10_Witness ==
  /\ gemini_breaker.state = HALF_OPEN
  /\ last_call.op = "allow_request"
  /\ last_call.result = Answer(TRUE)
  /\ now = last_failure_call + recovery_timeout

\* k record_failure calls in a row at time t, from breaker b
RECURSIVE Failures(_, _, _)
Failures(b, k, t) ==
  IF k = 0 THEN b ELSE record_failure(Failures(b, k - 1, t), t)

\* from b, fewer than failure_threshold failures in a row leave the breaker
\* closed and the failure_threshold-th opens it
NeedsFullThreshold(b, t) ==
  /\ \A k \in 0..(failure_threshold - 1) : Failures(b, k, t).state = CLOSED
  /\ Failures(b, failure_threshold, t).state = OPEN

\* the breaker is open because a record_failure found it half_open
Reopened ==
  /\ gemini_breaker.state = OPEN
  /\ last_transition = [from |-> HALF_OPEN, op |-> "record_failure"]

\* C11: a record_failure on a half_open breaker leaves it open, whatever the
\* failure count, with the recovery time counted from that call; on the
\* breaker so reopened allow_request returns false and leaves it open until
\* recovery_timeout has elapsed since the last record_failure, and returns
\* true once it has.
C11_HalfOpenFailureReopens ==
  [][/\ (BreakerCallStep({"record_failure"}) /\ gemini_breaker.state = HALF_OPEN)
          => /\ gemini_breaker'.state = OPEN
             /\ gemini_breaker'.last_failure_time = now
             /\ gemini_breaker'.failure_count = gemini_breaker.failure_count + 1
     /\ (BreakerCallStep({"allow_request"}) /\ Reopened /\ ~RecoveryElapsed)
          => (last_call'.result = Answer(FALSE) /\ gemini_breaker'.state = OPEN)
     /\ (BreakerCallStep({"allow_request"}) /\ Reopened /\ RecoveryElapsed)
          => (last_call'.result = Answer(TRUE) /\ gemini_breaker'.state = HALF_OPEN)
    ]_vars

\* a failure in half_open reopened the breaker, and an allow_request made
\* later, before the recovery time had passed again, was refused
C11_Witness ==
  /\ Reopened
  /\ last_call.op = "allow_request"
  /\ last_call.result = Answer(FALSE)
  /\ now > last_failure_call

\* C12: a record_success on a half_open breaker leaves it closed with failure
\* count 0, so that from there fewer than failure_threshold failures in a row
\* leave it closed and the failure_threshold-th opens it.
C12_HalfOpenSuccessCloses ==
  [][(BreakerCallStep({"record_success"}) /\ gemini_breaker.state = HALF_OPEN)
        => /\ gemini_breaker'.state = CLOSED
           /\ gemini_breaker'.failure_count = 0
           /\ failure_streak' = 0
           /\ NeedsFullThreshold(gemini_breaker', now)
    ]_vars

\* a success in half_open closed the breaker, and failure_threshold - 1
\* failures after it have left it closed
C12_Witness ==
  /\ gemini_breaker.state = CLOSED
  /\ last_transition = [from |-> HALF_OPEN, op |-> "record_success"]
  /\ last_call.op = "record_failure"
  /\ gemini_breaker.failure_count = failure_threshold - 1

\* the changes of state the breaker's description lists
AllowedTransitions ==
  { <<CLOSED, OPEN>>, <<OPEN, HALF_OPEN>>, <<HALF_OPEN, CLOSED>>, <<HALF_OPEN, OPEN>> }

\* C13 as stated: with concurrent runs and no reset, every change of the
\* breaker's state is closed->open, open->half_open, half_open->closed or
\* half_open->open; it never goes from open to closed directly.
C13_NoStateSkipped ==
  [][gemini_breaker'.state # gemini_breaker.state
       => <<gemini_breaker.state, gemini_breaker'.state>> \in AllowedTransitions]_vars

\* C16: while the breaker is closed its failure count is the number of
\* record_failure calls since the last record_success or reset, and that is
\* below failure_threshold; the breaker goes from closed to open exactly on the
\* record_failure call that brings this number to failure_threshold; every
\* record_success leaves the count at 0.
C16_OnlyConsecutiveFailuresCount ==
  /\ [](gemini_breaker.state = CLOSED
          => /\ gemini_breaker.failure_count = failure_streak
             /\ failure_streak < failure_threshold)
  /\ [][/\ (gemini_breaker.state = CLOSED /\ gemini_breaker'.state = OPEN)
             <=> (/\ gemini_breaker.state = CLOSED
                  /\ failure_streak' = failure_streak + 1
                  /\ failure_streak' = failure_threshold)
        /\ BreakerCallStep({"record_success"}) => gemini_breaker'.failure_count = 0
       ]_vars

\* failures before a success do not count: the breaker opened, a success
\* closed it, and failure_threshold - 1 failures since have left it closed
C16_Witness ==
  /\ gemini_breaker.state = CLOSED
  /\ last_transition.op = "record_success"
  /\ failure_streak = failure_threshold - 1
  /\ last_failure_call >= 0

\* C17: reset, in whatever state it finds the breaker, leaves it closed with
\* failure count 0; allow_request on the breaker it leaves returns true at any
\* later time, and from there fewer than failure_threshold failures in a row
\* leave it closed and the failure_threshold-th opens it.
C17_ResetCloses ==
  [][BreakerCallStep({"reset"})
       => /\ gemini_breaker'.state = CLOSED
          /\ gemini_breaker'.failure_count = 0
          /\ failure_streak' = 0
          /\ \A t \in now..(now + recovery_timeout) :
               allow_request(state(gemini_breaker', t).state)
          /\ NeedsFullThreshold(gemini_breaker', now)
    ]_vars

\* reset found the breaker open and closed it
C17_Witness ==
  /\ last_call.op = "reset"
  /\ last_transition = [from |-> OPEN, op |-> "reset"]
  /\ gemini_breaker = CircuitBreaker

\* the run was admitted while the breaker was half_open and the generate call
\* it was admitted for has not come back yet
ProbePending(r) == admitted_in[r] = HALF_OPEN /\ pc[r] = "generate_initial"

\* C15 as stated: while a run admitted in half_open is still waiting for the
\* outcome of its generate call, allow_request admits no other run.
C15_SingleProbe ==
  [][\A r \in Runs :
       (pc[r] = "check" /\ admitted_in'[r] = HALF_OPEN)
         => ~\E r2 \in Runs \ {r} : ProbePending(r2)]_vars

\* C14: whatever the interleaving of the callers' steps, at most one caller
\* is inside a method body; whenever none is, the breaker's state, failure
\* count and failure time are those the same calls leave when made one after
\* another in the order they took the lock; and what state and allow_request
\* return is what they return in that sequential order.
C14_OperationsAtomic ==
  /\ [](/\ Cardinality({th \in Threads : Inside(th)}) <= 1
        /\ (\A th \in Threads : ~Inside(th)) => gemini_breaker = sequential)
  /\ [][\A th \in Threads :
          (threads[th].pc = "release" /\ threads'[th].pc = "idle" /\ IsRead(th))
            => /\ threads'[th].seen = sequential'.state
               /\ threads[th].op = "allow_request"
                    => threads'[th].ok = allow_request(sequential'.state)
       ]_vars

\* one caller holds the lock in the middle of `_failure_count += 1`, the count
\* read and not yet written back, while another waits to record a failure too
C14_Witness ==
  \E th \in Threads, th2 \in Threads :
    /\ th # th2
    /\ At(th, "record_failure", "write_count")
    /\ At(th2, "record_failure", "acquire")
    /\ lock

\* what the response stream of run r has yielded so far
Sent(r) == SubSeq(events[r], 1, sent[r])

IsTerminal(e) == e.type \in {"complete", "error"}
IsGenerating(e) == e.type = "progress" /\ e.step = "generating" /\ e.status = "running"
IsToolEvent(e, status) == e.type = "progress" /\ e.step # "generating" /\ e.status = status

\* seq from position i on is in order, given where the events before i left
\* the stream: "start" (nothing yet), "tool" (a tool's running event is out and
\* its done event due, open being its step), "tools" (at least one pair is
\* complete), "generating", "closed" (the terminal event is out)
RECURSIVE StreamOrder(_, _, _, _)
StreamOrder(seq, i, phase, open) ==
  IF i > Len(seq) THEN TRUE
  ELSE LET e == seq[i]
       IN IF phase \in {"start", "tools"}
            THEN IF IsToolEvent(e, "running")
                   THEN StreamOrder(seq, i + 1, "tool", e.step)
                 ELSE IF IsGenerating(e)
                   THEN phase = "tools" /\ StreamOrder(seq, i + 1, "generating", "")
                 ELSE IsTerminal(e) /\ StreamOrder(seq, i + 1, "closed", "")
          ELSE IF phase = "tool"
            THEN /\ IsToolEvent(e, "done")
                 /\ e.step = open
                 /\ StreamOrder(seq, i + 1, "tools", "")
          ELSE IF phase = "generating"
            THEN IsTerminal(e) /\ StreamOrder(seq, i + 1, "closed", "")
          ELSE FALSE

\* the tools for which the stream holds a running event
RunningEvents(seq) == {i \in 1..Len(seq) : IsToolEvent(seq[i], "running")}

\* the run's task is over and the generator has drained the queue
StreamEnded(r) == pc[r] = "done" /\ sent[r] = Len(events[r])

\* C18: what a streamed run has put out so far, on its queue and on the
\* response stream, is in order: running/done pairs for one tool at a time,
\* then at most one "generating" event and only after at least one pair, then
\* one terminal event and nothing after it; there is one pair per tool
\* dispatched; and a stream that has ended holds its terminal event.
C18_StreamOrder ==
  \A r \in Runs :
    /\ StreamOrder(events[r], 1, "start", "")
    /\ StreamOrder(Sent(r), 1, "start", "")
    /\ Cardinality(RunningEvents(events[r])) = dispatches[r]
    /\ pc[r] = "done" <=> (events[r] # <<>> /\ IsTerminal(Last(events[r])))
    /\ StreamEnded(r) => IsTerminal(Last(Sent(r)))

\* a stream that has ended after two tools: two pairs, the generating event
\* and the complete event, all yielded
C18_Witness ==
  /\ StreamEnded(1)
  /\ Len(Sent(1)) = 6
  /\ IsToolEvent(Sent(1)[3], "running")
  /\ IsGenerating(Sent(1)[5])
  /\ Sent(1)[6] = CompleteEvent

\* a dispatch of run r returns in this step and its result is appended
DispatchReturns(r) == pc[r] = "execute" /\ pc'[r] = "generate"

\* C19: with the Gemini adapter, the function-response turn appended for a
\* dispatch stands directly after the model turn, which is the response's own
\* content, and carries the thought_signature of that turn's function-call
\* part: the same token when the part has one, none when it has none; the
\* list so built is what the next generate call gives the backend.
C19_SignatureEchoed ==
  /\ [](\A r \in Runs : provider = "gemini" =>
          \A i \in 1..Len(contents[r]) :
            IsToolCallTurn(contents[r][i]) =>
              /\ i < Len(contents[r])
              /\ IsToolResultTurn(contents[r][i + 1])
              /\ contents[r][i + 1].parts[1].thought_signature
                   = FirstCall(contents[r][i]).thought_signature)
  /\ [][\A r \in Runs : (provider = "gemini" /\ DispatchReturns(r)) =>
          LET model_turn == Turn("model", response[r].parts)
          IN /\ Len(contents'[r]) = Len(contents[r]) + 2
             /\ contents'[r][Len(contents[r]) + 1] = model_turn
             /\ Last(contents'[r]).parts[1].thought_signature
                  = FirstCall(model_turn).thought_signature
             /\ request'[r] = contents'[r]
       ]_vars

\* a call part that carried a token has been answered with the same token,
\* and the next generate call is under way
C19_Witness ==
  /\ provider = "gemini"
  /\ pc[1] = "generate"
  /\ FirstCall(contents[1][Len(contents[1]) - 1]).thought_signature = "sigA"
  /\ Last(request[1]).parts[1].thought_signature = "sigA"

\* C20: with the OpenAI adapter, a dispatch appends exactly two turns: an
\* assistant turn with the tool call's id, name and arguments as the backend
\* sent them, then a tool turn with the result under the same id; and the
\* messages of every generate call are the system message followed by the
\* whole contents list: the history, the user message and every pair appended
\* so far, in order.
C20_HistoryReplayed ==
  /\ [](\A r \in Runs :
          (provider = "openai" /\ pc[r] \in {"generate_initial", "generate"}) =>
            /\ Len(request[r]) = 1 + Base(r) + 2 * dispatches[r]
            /\ request[r][1].role = "system"
            /\ SubSeq(request[r], 2, Len(request[r])) = contents[r]
            /\ SubSeq(request[r], 2, Base(r)) = history[r]
            /\ \A k \in 1..dispatches[r] :
                 LET call_turn == request[r][Base(r) + 2 * k]
                     result_turn == request[r][Base(r) + 2 * k + 1]
                 IN /\ call_turn.role = "assistant"
                    /\ Len(call_turn.parts) = 1
                    /\ call_turn.parts[1].kind = "function_call"
                    /\ call_turn.parts[1].name = functions_called[r][k]
                    /\ result_turn.role = "tool"
                    /\ IsToolResultTurn(result_turn)
                    /\ result_turn.parts[1].id = call_turn.parts[1].id
                    /\ result_turn.parts[1].id # "")
  /\ [][\A r \in Runs : (provider = "openai" /\ DispatchReturns(r)) =>
          LET tool_call == response[r].tool_calls[1]
          IN /\ Len(contents'[r]) = Len(contents[r]) + 2
             /\ SubSeq(contents'[r], 1, Len(contents[r])) = contents[r]
             /\ contents'[r][Len(contents[r]) + 1] =
                  Turn("assistant", <<FunctionCallPart(tool_call.name, tool_call.args,
                                                       NoSig, tool_call.id)>>)
             /\ Last(contents'[r]).role = "tool"
             /\ Last(contents'[r]).parts[1].kind = "function_response"
             /\ Last(contents'[r]).parts[1].id = tool_call.id
       ]_vars

\* the third generate call of a run on a stored history: its messages hold the
\* history and both pairs appended before it
C20_Witness ==
  /\ provider = "openai"
  /\ pc[1] = "generate"
  /\ history[1] # <<>>
  /\ dispatches[1] = 2
  /\ Len(request[1]) = 8
  /\ request[1][5].parts[1].id # request[1][7].parts[1].id

\* C21: the loop's control flow does not depend on the adapter: given the
\* same backend answers (tool call or text) and the same tool results, a run
\* with the Gemini adapter and a run with the OpenAI adapter make the same
\* number of provider.generate calls, dispatch the same tools in the same
\* order, emit the same progress events and return the same final text.
C21_AdaptersAgree ==
  returned # <<>> => returned.gemini = returned.openai

\* the runs do agree on every answer that is text alone or a tool call alone
C21_PlainAnswersAgree ==
  (/\ returned # <<>>
   /\ \A i \in 1..Len(args) : args[i].kind = "tool_call" => args[i].text = "")
    => returned.gemini = returned.openai

\* C22: execute_function never raises.  For a name that is not registered it
\* returns a result with an error field and calls no handler; for a handler
\* that raises it returns a result with an error field, as a handler does
\* that reports an error itself.
C22_DispatcherNeverRaises ==
  /\ [](returned # <<>> =>
          /\ ~returned.raised
          /\ args.function_name \notin FUNCTION_REGISTRY
               => returned.result.error = "Unknown function"
          /\ (args.function_name \in FUNCTION_REGISTRY
              /\ args.handler \in {"raises", "returns_error"})
               => returned.result.error # ""
          /\ (args.function_name \in FUNCTION_REGISTRY /\ args.handler = "returns")
               => returned.result.error = "")
  /\ [][args'.function_name \notin FUNCTION_REGISTRY
          => returned'.handler_calls = HandlerCalls]_vars

\* a handler ran and raised, and the call returned an error result; two
\* handlers have been called so far
C22_Witness ==
  /\ returned # <<>>
  /\ args.function_name = KnownTool /\ args.handler = "raises"
  /\ ~returned.raised
  /\ returned.result.error = "Function execution failed"
  /\ returned.handler_calls = 2

\* the run is inside process_message
Running(r) == pc[r] \notin {"idle", "done"}
\* the run awaits a provider.generate or an execute_function call
Awaiting(r) == pc[r] \in {"generate_initial", "generate", "execute"}

\* C23: a run never blocks for ever on a backend or a tool that hangs: every
\* provider.generate call and every tool dispatch is bounded by a timeout, so
\* the run gets past each of them and process_message eventually returns.
C23_AwaitsBounded ==
  /\ Awaiting(1) ~> ~Awaiting(1)
  /\ Running(1) ~> pc[1] = "done"

\* C24: when every provider.generate call and every tool dispatch ends, every
\* run eventually returns a reply; a run that reaches the iteration limit
\* ends like any other, with the last response's text or the fallback text,
\* never with an error.
C24_RunTerminates ==
  /\ Running(1) ~> (pc[1] = "done" /\ outcome[1] = "returned")
  /\ [](\A r \in Runs :
          (pc[r] = "done" /\ iteration[r] = MAX_FUNCTION_CALL_ITERATIONS) =>
            /\ outcome[r] = "returned"
            /\ final_response[r] # ErrorText
            /\ final_response[r] \in {CarriedText(response[r]), LimitText})

\* a run stopped by the iteration limit has returned the fallback text
C24_Witness ==
  /\ pc[1] = "done" /\ outcome[1] = "returned"
  /\ iteration[1] = MAX_FUNCTION_CALL_ITERATIONS
  /\ dispatches[1] = MAX_FUNCTION_CALL_ITERATIONS
  /\ final_response[1] = LimitText

\* C25: get_llm_provider raises, and returns no provider, when the credential
\* of the selected provider is empty; otherwise it returns the OpenAI adapter
\* exactly when LLM_PROVIDER is "openai" in any letter case, and the Gemini
\* adapter for every other value.
C25_ProviderSelection ==
  returned # <<>> =>
    LET selected == IF args.LLM_PROVIDER \in {"openai", "OpenAI", "OPENAI"}
                      THEN "openai" ELSE "gemini"
        credential == IF selected = "openai" THEN args.OPENAI_API_KEY
                      ELSE args.GEMINI_API_KEY
    IN /\ credential = "" => (returned.raised /\ returned.provider = "none")
       /\ credential # "" => (~returned.raised /\ returned.provider = selected)

\* "OpenAI" with an OpenAI key and no Gemini key selects the OpenAI adapter
C25_Witness ==
  /\ returned # <<>>
  /\ args.LLM_PROVIDER = "OpenAI"
  /\ args.OPENAI_API_KEY = "test-key" /\ args.GEMINI_API_KEY = ""
  /\ ~returned.raised /\ returned.provider = "openai"

\* a stored message as the provider's content item
AsContent(p, message) ==
  build_content(p, IF message.role = "user" THEN "user" ELSE "model",
                message.content)

\* C26: the history built for a run leaves out the newest stored message, the
\* user message just saved, so that the contents of the first generate call
\* are the earlier messages in chronological order followed by the current
\* user message, once.
C26_EarlierThenCurrent ==
  returned # <<>> =>
    returned = [i \in 1..Len(args.earlier) |-> AsContent(provider, args.earlier[i])]
               \o << build_content(provider, "user", args.message) >>

\* in a new conversation the contents are the user message alone
C26_NewConversation ==
  (returned # <<>> /\ args.earlier = <<>>) =>
    returned = << build_content(provider, "user", args.message) >>

\* C27: in every state the breaker can reach by record_success,
\* record_failure, reset and reads of its state, it is closed only if the
\* failure count is below failure_threshold, and open or half_open only if
\* the count is at least failure_threshold.
C27_StateMatchesCount ==
  /\ gemini_breaker.state = CLOSED
       => gemini_breaker.failure_count < failure_threshold
  /\ gemini_breaker.state \in {OPEN, HALF_OPEN}
       => gemini_breaker.failure_count >= failure_threshold

\* half_open for the second time, after a failed probe: the count has passed
\* the threshold
C27_Witness ==
  /\ gemini_breaker.state = HALF_OPEN
  /\ gemini_breaker.failure_count = failure_threshold + 1
  /\ last_transition = [from |-> OPEN, op |-> "state"]

\* a provider.generate call of run r has ended in this step
GenerateEnds(r) == Len(gen_log'[r]) = Len(gen_log[r]) + 1

\* C28: each provider.generate call of a run records one outcome on the
\* breaker, record_success when it returned and record_failure when it
\* raised; what a tool dispatch gives never touches the breaker; a run denied
\* at the breaker check records nothing and leaves the breaker's state and
\* failure count as they are.
C28_OneOutcomePerGenerate ==
  [][/\ \A r \in Runs :
          /\ GenerateEnds(r) =>
               IF Last(gen_log'[r]) = "raised"
                 THEN /\ last_call'.op = "record_failure"
                      /\ failure_streak' = failure_streak + 1
                      /\ gemini_breaker'.failure_count
                           = gemini_breaker.failure_count + 1
                      /\ gemini_breaker'.last_failure_time = now
                 ELSE /\ last_call'.op = "record_success"
                      /\ failure_streak' = 0
                      /\ gemini_breaker'.state = CLOSED
                      /\ gemini_breaker'.failure_count = 0
          /\ DispatchReturns(r) =>
               /\ gemini_breaker' = gemini_breaker
               /\ last_call'.op = last_call.op
               /\ failure_streak' = failure_streak
          /\ (/\ pc[r] \in {"check", "degraded"}
              /\ pc'[r] \in {"degraded", "done"}
              /\ pc'[r] # pc[r]) =>
               /\ gemini_breaker'.state = gemini_breaker.state
               /\ gemini_breaker'.failure_count = gemini_breaker.failure_count
               /\ last_call'.op \in {"record_success", "record_failure"}
                    => last_call'.op = last_call.op
               /\ failure_streak' = failure_streak
               /\ gen_log'[r] = <<>>
     /\ (\A r \in Runs : ~GenerateEnds(r)) =>
          /\ failure_streak' = failure_streak
          /\ last_failure_call' = last_failure_call
          /\ gemini_breaker'.failure_count = gemini_breaker.failure_count
          /\ last_call'.op \in {"record_success", "record_failure"}
               => last_call'.op = last_call.op
    ]_vars

\* a run whose first generate call asked for a tool and whose second raised:
\* one failure is on the breaker, the success before it and the tool's
\* result left no other trace
C28_Witness ==
  /\ pc[1] = "done"
  /\ gen_log[1] = <<"tool_call", "raised">>
  /\ dispatches[1] = 1
  /\ requests = 1
  /\ failure_streak = 1
  /\ gemini_breaker.failure_count = 1

\* C29: every call of process_message that returns a reply has stored one
\* user message, before the breaker check and before any backend call, and
\* one assistant message that holds the returned text, whichever way the run
\* went: denied by the breaker, completed, stopped at the iteration limit,
\* or failed in the backend.
C29_OneUserOneAssistantMessage ==
  \A r \in Runs :
    /\ Running(r) => saved[r] = <<StoredMessage("user", UserMessage)>>
    /\ (pc[r] = "done" /\ outcome[r] = "returned") =>
         saved[r] = << StoredMessage("user", UserMessage),
                       StoredMessage("assistant", final_response[r]) >>
    /\ (pc[r] = "done" /\ outcome[r] = "raised") => saved[r] = <<>>

\* a denied run has stored the user message and the degradation text
C29_Witness ==
  /\ pc[1] = "done" /\ outcome[1] = "returned"
  /\ gen_calls[1] = 0
  /\ saved[1] = << StoredMessage("user", UserMessage),
                   StoredMessage("assistant", DegradedText) >>

\* a run whose backend failed, after a tool call, has stored the user message
\* and the apology text
C29_WitnessFailure ==
  /\ pc[1] = "done" /\ outcome[1] = "returned"
  /\ gen_log[1] = <<"tool_call", "raised">>
  /\ saved[1] = << StoredMessage("user", UserMessage),
                   StoredMessage("assistant", ErrorText) >>

\* C30: in the streaming endpoint every event put on the queue is yielded
\* once, in the order of the puts, those put just before the task finishes
\* included; a put never makes the run wait; and the stream ends once the
\* task is done and the queue is empty, the terminal event being the last one
\* yielded.
C30_QueueDelivers ==
  /\ [](\A r \in Runs :
          /\ yielded[r] \o queue[r] = events[r]
          /\ gen_pc[r] = "ended" =>
               /\ TaskDone(r) /\ queue[r] = <<>>
               /\ yielded[r] = events[r]
               /\ IsTerminal(Last(yielded[r]))
               /\ \A i \in 1..(Len(yielded[r]) - 1) : ~IsTerminal(yielded[r][i]))
  /\ [](/\ pc[1] = "degraded" => ENABLED ReturnDegraded(1)
        /\ pc[1] = "reply" => ENABLED ReturnReply(1)
        /\ pc[1] = "execute" => ENABLED ExecuteReturns(1, "returns"))
  /\ (TaskDone(1) /\ gen_pc[1] # "none") ~> gen_pc[1] = "ended"

\* the stream of a run with one tool call has ended: the tool's two events,
\* the generating event and the complete event were yielded, in that order
C30_Witness ==
  /\ gen_pc[1] = "ended"
  /\ Len(yielded[1]) = 4
  /\ IsToolEvent(yielded[1][1], "running")
  /\ IsToolEvent(yielded[1][2], "done")
  /\ IsGenerating(yielded[1][3])
  /\ yielded[1][4] = CompleteEvent

\* the task is done and the generator, still in its first loop, has yet to
\* take the last three events off the queue
C30_WitnessLateEvents ==
  /\ TaskDone(1) /\ gen_pc[1] = "loop"
  /\ Len(queue[1]) = 3 /\ Last(queue[1]) = CompleteEvent
  /\ Len(yielded[1]) = 1

====
